---- MODULE Spec2Model ----
(***************************************************************************)
(* Chain state machine of src/src/validation.cpp: block index, candidate   *)
(* set, ActivateBestChain, ConnectBlock / DisconnectBlock.                  *)
(*                                                                         *)
(* Two specifications share the module:                                     *)
(*   Spec         the chain controller (block index, fork choice,           *)
(*                ActivateBestChain as a process that releases cs_main      *)
(*                between iterations, other threads acting in between);     *)
(*   SpecConnect  one block connected to / disconnected from a coin view    *)
(*                and token state (ConnectTip, ConnectBlock, DisconnectTip, *)
(*                DisconnectBlock at transaction level).                    *)
(***************************************************************************)
EXTENDS Integers, Sequences, FiniteSets, TLC

\* ---------------------------------------------------------------------------
\* Bounds of the chain model
\* ---------------------------------------------------------------------------

\* number of operator commands (invalidateblock, reconsiderblock,
\* preciousblock) explored in one behaviour
MaxRpcOps == 1

\* highest number of a block file
MaxFile == 2

\* MAX_BLOCKFILE_SIZE (validation.cpp:4230), a stored block counting 1
MAX_BLOCKFILE_SIZE == 3

\* greatest height of the chain in the pruning model
MaxHeight == 600

\* MIN_BLOCKS_TO_KEEP (validation.cpp:5067, 5112)
MIN_BLOCKS_TO_KEEP == 288

\* nBuffer of FindFilesToPrune (validation.cpp:5117), in blocks stored
nBuffer == 2

\* restarts of the two nodes explored in one behaviour
MaxRestarts == 1

\* -maxreorg (validation.cpp:4628): depth at which a forking header is refused
nMaxReorgDepth == 2

\* validation.cpp:3855: blocks connected per batch in ActivateBestChainStep
nConnectBatch == 32

\* ---------------------------------------------------------------------------
\* The block tree the environment can deliver (headers and block data arrive
\* in any order).  G is the genesis block, two branches fork from it.
\* ---------------------------------------------------------------------------

NoBlock == "null"

Blocks == {"G", "A1", "A2", "B1", "B2", "B3"}

hashGenesisBlock == "G"

\* hashPrevBlock of each header
hashPrevBlock(b) ==
    CASE b = "A1" -> "G"
      [] b = "A2" -> "A1"
      [] b = "B1" -> "G"
      [] b = "B2" -> "B1"
      [] b = "B3" -> "B2"
      [] OTHER    -> NoBlock

\* order of the CBlockIndex objects in memory (the comparator's last resort)
AddrOrder == <<"G", "A1", "B1", "A2", "B2", "B3">>

AddrTable == [b \in Blocks |-> CHOOSE i \in 1..Len(AddrOrder) : AddrOrder[i] = b]

Addr(b) == AddrTable[b]

\* what ConnectBlock finds in a block:
\*   ok         nothing wrong
\*   badReward  coinbase pays too much (found after the transaction loop)
\*   badScript  an input script of a later transaction fails
\*   corrupt    the block read back from disk fails CheckBlock with
\*              CorruptionPossible (merkle root mismatch)
BlockKinds == {"ok", "badReward", "badScript", "corrupt"}

\* the blocks of the tree that may be other than ok
BadBlockChoices == {"B1", "B2"}

\* the configurations explored: at most one block of the tree is not ok
KindChoices ==
    { [b \in Blocks |-> "ok"] } \cup
    { [b \in Blocks |-> IF b = x THEN k ELSE "ok"] :
          x \in BadBlockChoices, k \in BlockKinds \ {"ok"} }

\* headers that may arrive before their block (headers-first announcement)
HeaderChoices == {"B2", "B3"}

\* the configurations in which the work hash of one of these headers is above
\* the target its nBits claims
HighHashChoices ==
    { [b \in Blocks |-> IF b = x THEN "highHash" ELSE "ok"] : x \in HeaderChoices }

\* blocks the operator commands are applied to
InvalidateChoices == {"A1"}

ReconsiderChoices == {"A1", "B1", "B2"}

PreciousChoices == {"B1"}

\* script-check worker counts explored (nScriptCheckThreads, -par)
ThreadChoices == {0, 1}

\* CBlockIndex::nHeight as AddToBlockIndex computes it
RECURSIVE HeightFrom(_)
HeightFrom(b) == IF hashPrevBlock(b) = NoBlock THEN 0 ELSE HeightFrom(hashPrevBlock(b)) + 1

HeightTable == [b \in Blocks \cup {NoBlock} |-> HeightFrom(b)]

nHeight(b) == HeightTable[b]

GetBlockProof(b) == IF b \in Blocks THEN 1 ELSE 0

\* CBlockIndex::nChainWork as AddToBlockIndex computes it
RECURSIVE ChainWorkFrom(_)
ChainWorkFrom(b) ==
    IF b = NoBlock THEN 0
    ELSE ChainWorkFrom(hashPrevBlock(b)) + GetBlockProof(b)

ChainWorkTable == [b \in Blocks \cup {NoBlock} |-> ChainWorkFrom(b)]

nChainWork(b) == ChainWorkTable[b]

\* CBlockIndex::GetAncestor(height)
RECURSIVE GetAncestor(_, _)
GetAncestor(b, h) ==
    IF b = NoBlock \/ h > nHeight(b) \/ h < 0 THEN NoBlock
    ELSE IF nHeight(b) = h THEN b
    ELSE GetAncestor(hashPrevBlock(b), h)

\* b and all its ancestors
RECURSIVE AncestorsFrom(_)
AncestorsFrom(b) == IF b = NoBlock THEN {} ELSE {b} \cup AncestorsFrom(hashPrevBlock(b))

AncestorsTable == [b \in Blocks \cup {NoBlock} |-> AncestorsFrom(b)]

AncestorsOf(b) == AncestorsTable[b]

\* strict descendants of b among the blocks of the tree
DescendantsOf(b) == { d \in Blocks : d # b /\ b \in AncestorsOf(d) }

Max(a, b) == IF a >= b THEN a ELSE b

Min(a, b) == IF a <= b THEN a ELSE b

\* ---------------------------------------------------------------------------
\* State
\* ---------------------------------------------------------------------------

VARIABLES
    \* ---- chain controller ----
    mapBlockIndex,            \* set of blocks that have a CBlockIndex entry
    nStatus,                  \* block -> set of status flags
    nChainTx,                 \* block -> cumulative tx count (0 = not linked)
    nSequenceId,              \* block -> sequence id
    setBlockIndexCandidates,  \* the candidate set
    mapBlocksUnlinked,        \* sequence of <<parent, child>> (multimap order)
    chainTip,                 \* chainActive.Tip()
    nBlockSequenceId,         \* next sequence id
    nBlockReverseSequenceId,  \* next preciousblock id
    nLastPreciousChainwork,
    g_failed_blocks,
    abc,                      \* position and locals of the running ActivateBestChain call
    shutdownRequested,
    nScriptCheckThreads,
    blockKind,                \* block -> what ConnectBlock finds in it
    \* ---- history (not program state) ----
    hMaxTipWork,              \* largest cumulative work of any tip so far
    hInvalidateCalled,        \* InvalidateBlock has been called
    hInterfered,              \* another thread acted during the running call
    hConnectFailed,           \* blocks that got an invalid verdict in the running call
    hEverFailed,              \* some ConnectTip has failed (invalid verdict or system error)
    hRpcOps,                  \* operator commands used
    hInvalidation,            \* the last InvalidateBlock call and what it found
    \* ---- one block against a coin view (SpecConnect) ----
    cv,
    \* ---- the mempool across submissions and reorganisations (SpecMempool) ----
    mp,
    \* ---- two nodes fed the same blocks (SpecFork) ----
    fk,
    \* ---- block files and databases on disk (SpecFlush) ----
    fl,
    \* ---- pruning of block files (SpecPrune) ----
    pr,
    \* ---- ReplayBlocks on a coin database left by an interrupted flush (SpecReplay) ----
    rp,
    \* ---- threads and the locks they hold (SpecLocks) ----
    lk,
    \* ---- governance state across block operations (SpecGov) ----
    gv,
    \* ---- import of a block file (SpecImport) ----
    im,
    \* ---- block and undo data flags of the index entries (SpecUndo) ----
    ud

chainVars == <<mapBlockIndex, nStatus, nChainTx, nSequenceId, setBlockIndexCandidates,
               mapBlocksUnlinked, chainTip, nBlockSequenceId, nBlockReverseSequenceId,
               nLastPreciousChainwork, g_failed_blocks, abc,
               shutdownRequested, nScriptCheckThreads, blockKind,
               hMaxTipWork, hInvalidateCalled, hInterfered, hConnectFailed, hEverFailed,
               hRpcOps, hInvalidation>>

\* the variables of the specifications that follow the mempool
restVars == <<rp, lk, gv, im, ud>>

laterVars == <<fk, fl, pr, restVars>>

vars == <<chainVars, cv, mp, laterVars>>

\* ---------------------------------------------------------------------------
\* CBlockIndex status helpers (chain.h)
\* ---------------------------------------------------------------------------

BLOCK_FAILED_MASK == {"FAILED_VALID", "FAILED_CHILD"}

\* the validity levels, lowest first
ValidLevels == <<"VALID_TREE", "VALID_TRANSACTIONS", "VALID_CHAIN", "VALID_SCRIPTS">>

LevelsUpTo(level) ==
    LET k == CHOOSE i \in 1..Len(ValidLevels) : ValidLevels[i] = level
    IN  { ValidLevels[i] : i \in 1..k }

\* CBlockIndex::IsValid(nUpTo) on a status value
IsValidStatus(st, level) == (st \cap BLOCK_FAILED_MASK = {}) /\ level \in st

\* CBlockIndex::RaiseValidity(nUpTo) on a status value: no effect on a failed entry
RaiseValidity(st, level) ==
    IF st \cap BLOCK_FAILED_MASK # {} THEN st ELSE st \cup LevelsUpTo(level)

IsValid(b, level) == IsValidStatus(nStatus[b], level)

\* chainActive.Contains(b)
ChainContains(b) == chainTip # NoBlock /\ b \in AncestorsOf(chainTip)

\* CChain::FindFork(b) for the chain ending in tip: last common block of that
\* chain and b's chain
FindFork(tip, b) ==
    LET common == AncestorsOf(b) \cap AncestorsOf(tip)
    IN  IF common = {} THEN NoBlock
        ELSE CHOOSE c \in common : \A d \in common : nHeight(d) <= nHeight(c)

\* CBlockIndexWorkComparator()(pa, pb) for given sequence ids: TRUE iff pa sorts before (worse than) pb
WorkLess(seq, pa, pb) ==
    IF nChainWork(pa) > nChainWork(pb) THEN FALSE
    ELSE IF nChainWork(pa) < nChainWork(pb) THEN TRUE
    ELSE IF seq[pa] < seq[pb] THEN FALSE
    ELSE IF seq[pa] > seq[pb] THEN TRUE
    ELSE IF Addr(pa) < Addr(pb) THEN FALSE
    ELSE IF Addr(pa) > Addr(pb) THEN TRUE
    ELSE FALSE

CBlockIndexWorkComparator(pa, pb) == WorkLess(nSequenceId, pa, pb)

\* *setBlockIndexCandidates.rbegin()
TopCandidate(cands, seq) == CHOOSE x \in cands : \A y \in cands \ {x} : WorkLess(seq, y, x)

\* pruning that erases nothing
PruneNothing(cands, seq, tip) == cands

\* PruneBlockIndexCandidates(): drop every entry that sorts before the tip
PruneBlockIndexCandidates(cands, seq, tip) == { x \in cands : ~WorkLess(seq, x, tip) }

\* Calls of ActivateBestChain are explored one at a time; what other threads
\* do under cs_main (deliver headers and blocks, operator commands) interleaves
\* with the iterations of the running call.
\* Position of the calling thread; at every position cs_main is free:
\*   idle      not in a call
\*   top       at the top of the do-while loop (before the shutdown poll)
\*   retTrue   the call has just returned true
\*   retFalse  the call has just returned false
\*   crashed   an assert failed inside the call (the process is gone)
\* mostWork is pindexMostWork kept between iterations, pblock the block the
\* caller passed in.
\* fInvalidFound is the flag the last ActivateBestChainStep left.
AbcIdle == [pc |-> "idle", mostWork |-> NoBlock, pblock |-> NoBlock, fInvalidFound |-> FALSE]

\* the call is at the moment of its return
Returning == abc.pc \in {"retTrue", "retFalse"}

\* the process has not died on an assertion
Alive == abc.pc # "crashed"

\* ---------------------------------------------------------------------------
\* Init: the node after LoadGenesisBlock and the first ActivateBestChain
\* ---------------------------------------------------------------------------

CvIdle == [pc |-> "off"]

MpIdle == [pc |-> "off"]

RestIdle ==
    /\ rp = [pc |-> "off"]
    /\ lk = [pc |-> "off"]
    /\ gv = [pc |-> "off"]
    /\ im = [pc |-> "off"]
    /\ ud = [pc |-> "off"]

\* the parts of the later specifications, switched off
LaterIdle ==
    /\ fk = [pc |-> "off"]
    /\ fl = [pc |-> "off"]
    /\ pr = [pc |-> "off"]
    /\ RestIdle

\* the block index, the chain and the history right after start-up
InitChainState ==
    /\ mapBlockIndex = {hashGenesisBlock}
    /\ nStatus = [b \in Blocks |->
                    IF b = hashGenesisBlock
                    THEN LevelsUpTo("VALID_SCRIPTS") \cup {"HAVE_DATA"}
                    ELSE {}]
    /\ nChainTx = [b \in Blocks |-> IF b = hashGenesisBlock THEN 1 ELSE 0]
    /\ nSequenceId = [b \in Blocks |-> IF b = hashGenesisBlock THEN 1 ELSE 0]
    /\ setBlockIndexCandidates = {hashGenesisBlock}
    /\ mapBlocksUnlinked = <<>>
    /\ chainTip = hashGenesisBlock
    /\ nBlockSequenceId = 2
    /\ nBlockReverseSequenceId = -1
    /\ nLastPreciousChainwork = 0
    /\ g_failed_blocks = {}
    /\ abc = AbcIdle
    /\ shutdownRequested = FALSE
    /\ hMaxTipWork = nChainWork(hashGenesisBlock)
    /\ hInvalidateCalled = FALSE
    /\ hInterfered = FALSE
    /\ hConnectFailed = {}
    /\ hEverFailed = FALSE
    /\ hRpcOps = 0

\* no InvalidateBlock call yet; on: the calls are recorded
NoInvalidation ==
    [on |-> FALSE, pindex |-> NoBlock, tip |-> NoBlock, index |-> {}, data |-> {},
     fTipWasBest |-> FALSE, fLineClean |-> FALSE, reset |-> NoBlock]

InitChain == InitChainState /\ hInvalidation = NoInvalidation

Init ==
    /\ InitChain
    /\ nScriptCheckThreads \in ThreadChoices
    /\ blockKind \in KindChoices
    /\ (nScriptCheckThreads # 0 => \E b \in Blocks : blockKind[b] = "badScript")
    /\ cv = CvIdle
    /\ mp = MpIdle
    /\ LaterIdle

\* hInterfered after an action of another thread
Interfere == hInterfered \/ abc.pc # "idle"

\* ---------------------------------------------------------------------------
\* Header acceptance
\* ---------------------------------------------------------------------------

\* ContextualCheckBlockHeader: the only context check the delivered headers can fail
fGreaterThanMaxReorg(b) ==
    nHeight(chainTip) - ((nHeight(hashPrevBlock(b)) + 1) - 1) >= nMaxReorgDepth

\* params.powLimit, the largest target a header may claim
powLimit == 8

\* block.GetWorkHash() as a number
GetWorkHash(b) == IF blockKind[b] = "highHash" THEN 7 ELSE 3

\* the target block.nBits stands for
nBits(b) == 5

\* CheckProofOfWork(hash, nBits, params): the target is in range and the hash
\* is not above it
CheckProofOfWork(hash, bnTarget) ==
    /\ ~(bnTarget <= 0 \/ bnTarget > powLimit)
    /\ ~(hash > bnTarget)

\* CheckBlockHeader(block, state, consensusParams, fCheckPOW); version and
\* time of the delivered headers are in order
CheckBlockHeader(b, fCheckPOW) ==
    IF fCheckPOW /\ ~CheckProofOfWork(GetWorkHash(b), nBits(b)) THEN "high-hash" ELSE "ok"

\* AcceptBlockHeader without the look at the predecessor
HeaderVerdictAnyPrev(b) ==
    IF b \in mapBlockIndex
    THEN IF nStatus[b] \cap {"FAILED_VALID", "FAILED_CHILD"} # {} THEN "duplicate" ELSE "known"
    ELSE "new"

\* the g_failed_blocks entries that are ancestors of pindexPrev
FailedAncestors(prev) ==
    { f \in g_failed_blocks : GetAncestor(prev, nHeight(f)) = f }

\* AcceptBlockHeader's verdict on header b in the current state
HeaderVerdict(b) ==
    IF b \in mapBlockIndex
    THEN IF nStatus[b] \cap BLOCK_FAILED_MASK # {} THEN "duplicate" ELSE "known"
    ELSE IF CheckBlockHeader(b, FALSE) # "ok" THEN CheckBlockHeader(b, FALSE)
    ELSE IF hashPrevBlock(b) \notin mapBlockIndex THEN "prev-blk-not-found"
    ELSE IF nStatus[hashPrevBlock(b)] \cap BLOCK_FAILED_MASK # {} THEN "bad-prevblk"
    ELSE IF fGreaterThanMaxReorg(b) THEN "bad-fork-prior-to-maxreorgdepth"
    ELSE IF ~IsValid(hashPrevBlock(b), "VALID_SCRIPTS") /\ FailedAncestors(hashPrevBlock(b)) # {}
         THEN "bad-prevblk-walk"
    ELSE "new"

HeaderAccepted(b) == HeaderVerdict(b) \in {"known", "new"}

\* nStatus after AcceptBlockHeader(b): AddToBlockIndex for a new header, the
\* FAILED_CHILD walk from pindexPrev down to the first failed ancestor found
StatusAfterHeader(b) ==
    CASE HeaderVerdict(b) = "new" ->
            [nStatus EXCEPT ![b] = RaiseValidity({}, "VALID_TREE")]
      [] HeaderVerdict(b) = "bad-prevblk-walk" ->
            LET prev == hashPrevBlock(b)
                f    == CHOOSE x \in FailedAncestors(prev) :
                            \A y \in FailedAncestors(prev) : Addr(x) <= Addr(y)
            IN  [x \in Blocks |->
                    IF x \in AncestorsOf(prev) /\ nHeight(x) > nHeight(f)
                    THEN nStatus[x] \cup {"FAILED_CHILD"}
                    ELSE nStatus[x]]
      [] OTHER -> nStatus

\* AddToBlockIndex
AddToBlockIndex(b) == IF HeaderVerdict(b) = "new" THEN mapBlockIndex \cup {b} ELSE mapBlockIndex

\* ProcessNewBlockHeaders with one header
ProcessNewBlockHeaders(b) ==
    /\ Alive /\ ~shutdownRequested /\ ~Returning
    /\ b # hashGenesisBlock
    /\ HeaderVerdict(b) \in {"new", "bad-prevblk-walk"}
    /\ mapBlockIndex' = AddToBlockIndex(b)
    /\ nStatus' = StatusAfterHeader(b)
    /\ hInterfered' = Interfere
    /\ UNCHANGED <<nChainTx, nSequenceId, setBlockIndexCandidates, mapBlocksUnlinked, chainTip,
                   nBlockSequenceId, nBlockReverseSequenceId, nLastPreciousChainwork,
                   g_failed_blocks, abc, shutdownRequested,
                   nScriptCheckThreads, blockKind, hMaxTipWork, hInvalidateCalled,
                   hConnectFailed, hRpcOps>>
    /\ UNCHANGED <<laterVars, cv, mp, hInvalidation, hEverFailed>>

\* ---------------------------------------------------------------------------
\* Block acceptance
\* ---------------------------------------------------------------------------

\* the entries of mapBlocksUnlinked filed under parent p, in order
RECURSIVE UnlinkedChildren(_, _)
UnlinkedChildren(unl, p) ==
    IF unl = <<>> THEN <<>>
    ELSE IF Head(unl)[1] = p THEN <<Head(unl)[2]>> \o UnlinkedChildren(Tail(unl), p)
    ELSE UnlinkedChildren(Tail(unl), p)

RECURSIVE UnlinkedWithout(_, _)
UnlinkedWithout(unl, p) ==
    IF unl = <<>> THEN <<>>
    ELSE IF Head(unl)[1] = p THEN UnlinkedWithout(Tail(unl), p)
    ELSE <<Head(unl)>> \o UnlinkedWithout(Tail(unl), p)

\* the queue loop of ReceivedBlockTransactions.  s is a record of the fields
\* the loop updates: tx (nChainTx), seq (nSequenceId), cands, unl, next
RECURSIVE ConnectQueue(_, _)
ConnectQueue(s, queue) ==
    IF queue = <<>> THEN s
    ELSE LET pindex == Head(queue)
             prev   == hashPrevBlock(pindex)
             tx1    == [s.tx EXCEPT ![pindex] = (IF prev = NoBlock THEN 0 ELSE s.tx[prev]) + 1]
             seq1   == [s.seq EXCEPT ![pindex] = s.next]
             cands1 == IF chainTip = NoBlock \/ ~WorkLess(seq1, pindex, chainTip)
                       THEN s.cands \cup {pindex} ELSE s.cands
         IN  ConnectQueue([tx |-> tx1, seq |-> seq1, cands |-> cands1,
                           unl |-> UnlinkedWithout(s.unl, pindex), next |-> s.next + 1],
                          Tail(queue) \o UnlinkedChildren(s.unl, pindex))

\* ReceivedBlockTransactions(pindexNew) on status st
ReceivedBlockTransactions(st, pindexNew) ==
    LET s0 == [tx |-> [nChainTx EXCEPT ![pindexNew] = 0], seq |-> nSequenceId,
               cands |-> setBlockIndexCandidates, unl |-> mapBlocksUnlinked,
               next |-> nBlockSequenceId]
        prev == hashPrevBlock(pindexNew)
    IN  IF prev = NoBlock \/ nChainTx[prev] # 0
        THEN ConnectQueue(s0, <<pindexNew>>)
        ELSE IF prev # NoBlock /\ IsValidStatus(st[prev], "VALID_TREE")
        THEN [s0 EXCEPT !.unl = Append(s0.unl, <<prev, pindexNew>>)]
        ELSE s0

\* AcceptBlock stores the block (TRUE) or returns early without storing it
AcceptBlockStores(b, fRequested) ==
    LET fAlreadyHave == "HAVE_DATA" \in StatusAfterHeader(b)[b]
        fHasMoreWork == IF chainTip # NoBlock THEN nChainWork(b) > nChainWork(chainTip) ELSE TRUE
    IN  /\ ~fAlreadyHave
        /\ (fRequested \/ fHasMoreWork)

\* ProcessNewBlock up to its call of ActivateBestChain.  If no call is running
\* the thread leaves the locked section and stands at the top of the loop;
\* otherwise the block is delivered by another thread, which has not come to
\* its own ActivateBestChain call yet.
ProcessNewBlock(b, fForceProcessing) ==
    /\ Alive /\ ~shutdownRequested /\ ~Returning
    /\ b # hashGenesisBlock
    /\ CheckBlockHeader(b, TRUE) = "ok"
    /\ HeaderVerdict(b) \in {"known", "new", "bad-prevblk-walk"}
    /\ mapBlockIndex' = AddToBlockIndex(b)
    /\ IF HeaderAccepted(b) /\ AcceptBlockStores(b, fForceProcessing)
       THEN LET st1 == [StatusAfterHeader(b) EXCEPT
                            ![b] = RaiseValidity(@ \cup {"HAVE_DATA"}, "VALID_TRANSACTIONS")]
                r   == ReceivedBlockTransactions(st1, b)
            IN  /\ nStatus' = st1
                /\ nChainTx' = r.tx
                /\ nSequenceId' = r.seq
                /\ setBlockIndexCandidates' = r.cands
                /\ mapBlocksUnlinked' = r.unl
                /\ nBlockSequenceId' = r.next
       ELSE /\ nStatus' = StatusAfterHeader(b)
            /\ UNCHANGED <<nChainTx, nSequenceId, setBlockIndexCandidates, mapBlocksUnlinked,
                           nBlockSequenceId>>
    /\ abc' = IF abc.pc = "idle" /\ HeaderAccepted(b)
               THEN [AbcIdle EXCEPT !.pc = "top", !.pblock = b]
               ELSE abc
    /\ hInterfered' = (abc.pc # "idle")
    /\ hConnectFailed' = IF abc.pc = "idle" THEN {} ELSE hConnectFailed
    /\ UNCHANGED <<chainTip, nBlockReverseSequenceId, nLastPreciousChainwork,
                   g_failed_blocks, shutdownRequested,
                   nScriptCheckThreads, blockKind, hMaxTipWork, hInvalidateCalled,
                   hRpcOps>>
    /\ UNCHANGED <<laterVars, cv, mp, hInvalidation, hEverFailed>>

\* ---------------------------------------------------------------------------
\* ActivateBestChain.  One loop iteration runs under cs_main from the search
\* for the target to the return of ActivateBestChainStep, so it is one atomic
\* action; the lock is released between iterations.
\* ---------------------------------------------------------------------------

\* blocks of a set as a sequence, highest first
RECURSIVE Descending(_)
Descending(S) ==
    IF S = {} THEN <<>>
    ELSE LET top == CHOOSE x \in S : \A y \in S : nHeight(y) <= nHeight(x)
         IN  <<top>> \o Descending(S \ {top})

\* blocks of a set as a sequence, lowest first
RECURSIVE Ascending(_)
Ascending(S) ==
    IF S = {} THEN <<>>
    ELSE LET low == CHOOSE x \in S : \A y \in S : nHeight(x) <= nHeight(y)
         IN  <<low>> \o Ascending(S \ {low})

RECURSIVE AppendUnlinked(_, _)
AppendUnlinked(unl, bs) ==
    IF bs = <<>> THEN unl
    ELSE AppendUnlinked(Append(unl, <<hashPrevBlock(Head(bs)), Head(bs)>>), Tail(bs))

\* FindMostWorkChain().  s = [st, cands, unl]; the result adds the field best
RECURSIVE FindMostWorkChain(_)
FindMostWorkChain(s) ==
    IF s.cands = {} THEN [st |-> s.st, cands |-> s.cands, unl |-> s.unl, best |-> NoBlock]
    ELSE LET pindexNew == TopCandidate(s.cands, nSequenceId)
             path      == AncestorsOf(pindexNew) \ AncestorsOf(chainTip)
             unusable  == { x \in path :
                              \/ s.st[x] \cap BLOCK_FAILED_MASK # {}
                              \/ "HAVE_DATA" \notin s.st[x] }
         IN  IF unusable = {}
             THEN [st |-> s.st, cands |-> s.cands, unl |-> s.unl, best |-> pindexNew]
             ELSE LET pindexTest   == CHOOSE x \in unusable :
                                          \A y \in unusable : nHeight(y) <= nHeight(x)
                      fFailedChain == s.st[pindexTest] \cap BLOCK_FAILED_MASK # {}
                      above        == { x \in path : nHeight(x) > nHeight(pindexTest) }
                  IN  FindMostWorkChain(
                        [st    |-> IF fFailedChain
                                   THEN [x \in Blocks |-> IF x \in above
                                                          THEN s.st[x] \cup {"FAILED_CHILD"}
                                                          ELSE s.st[x]]
                                   ELSE s.st,
                         cands |-> s.cands \ (above \cup {pindexTest}),
                         unl   |-> IF fFailedChain THEN s.unl
                                   ELSE AppendUnlinked(s.unl, Descending(above))])

\* CheckInputs with script checks on: TRUE iff it reports the failing script.
\* With worker threads the checks are only queued (pvChecks) and ConnectBlock
\* never reads the queue's result.
ScriptFailureSeen(nThreads) == nThreads = 0

\* what ConnectTip(b) gets from ReadBlockFromDisk + ConnectBlock:
\*   "abort"    system error (AbortNode), state not invalid
\*   "invalid"  state.IsInvalid(), not corruption
\*   "ok"       ConnectBlock returned true
ConnectBlockVerdict(b, fFromMemory) ==
    IF blockKind[b] = "corrupt" /\ ~fFromMemory THEN "abort"
    ELSE IF blockKind[b] = "badScript" /\ ScriptFailureSeen(nScriptCheckThreads) THEN "invalid"
    ELSE IF blockKind[b] = "badReward" THEN "invalid"
    ELSE "ok"

\* InvalidBlockFound that forgets to set BLOCK_FAILED_VALID on the entry
InvalidBlockFoundUnmarked(s, pindex) ==
    [s EXCEPT !.failed = @ \cup {pindex},
              !.cands = @ \ {pindex}]

\* InvalidBlockFound(pindex) for a verdict that is not CorruptionPossible.
\* s is the chain state a locked section works on:
\*   tip, st (nStatus), cands, failed (g_failed_blocks), hmax, bad, out
InvalidBlockFound(s, pindex) ==
    [s EXCEPT !.st = [@ EXCEPT ![pindex] = @ \cup {"FAILED_VALID"}],
              !.failed = @ \cup {pindex},
              !.cands = @ \ {pindex}]

\* the end of a successful ConnectBlock on the index entry
ConnectBlockIndexUpdate(st, pindex) ==
    [st EXCEPT ![pindex] = RaiseValidity(@ \cup {"HAVE_UNDO"}, "VALID_SCRIPTS")]

\* DisconnectTip(): the tip moves to its predecessor, the candidate set is not touched
DisconnectTip(s) == [s EXCEPT !.tip = hashPrevBlock(s.tip)]

\* ConnectTip(pindexNew); out is the verdict
ConnectTip(s, pindexNew, fFromMemory) ==
    LET verdict == ConnectBlockVerdict(pindexNew, fFromMemory)
    IN  CASE verdict = "abort"   -> [s EXCEPT !.out = "abort"]
          [] verdict = "invalid" -> [InvalidBlockFound(s, pindexNew) EXCEPT
                                        !.out = "invalid", !.bad = @ \cup {pindexNew}]
          [] OTHER               -> [s EXCEPT !.st = ConnectBlockIndexUpdate(@, pindexNew),
                                              !.tip = pindexNew,
                                              !.hmax = Max(@, nChainWork(pindexNew)),
                                              !.out = "ok"]

\* the batch loop breaking after the first connected block, whatever its work
ConnectBatchBreakEarly(s, vpindexToConnect, pindexMostWork, pblock, pindexOldTip) ==
    IF vpindexToConnect = <<>> THEN [s EXCEPT !.out = "continue"]
    ELSE LET pindexConnect == Head(vpindexToConnect)
             c == ConnectTip(s, pindexConnect,
                             pindexConnect = pindexMostWork /\ pblock = pindexMostWork)
             pruned == PruneBlockIndexCandidates(c.cands, nSequenceId, c.tip)
         IN  IF c.out # "ok" THEN c
             ELSE IF pruned = {} THEN [c EXCEPT !.cands = pruned, !.out = "crash"]
             ELSE [c EXCEPT !.cands = pruned, !.out = "break"]

\* the for loop over one batch of ActivateBestChainStep; out becomes
\*   "continue"  batch connected, no break
\*   "break"     better position reached
\*   "invalid"   a block got an invalid verdict (fInvalidFound)
\*   "abort"     system error, the step returns false
\*   "crash"     the assert of PruneBlockIndexCandidates failed
RECURSIVE ConnectBatch(_, _, _, _, _)
ConnectBatch(s, vpindexToConnect, pindexMostWork, pblock, pindexOldTip) ==
    IF vpindexToConnect = <<>> THEN [s EXCEPT !.out = "continue"]
    ELSE LET pindexConnect == Head(vpindexToConnect)
             c == ConnectTip(s, pindexConnect,
                             pindexConnect = pindexMostWork /\ pblock = pindexMostWork)
             pruned == PruneBlockIndexCandidates(c.cands, nSequenceId, c.tip)
         IN  IF c.out # "ok" THEN c
             ELSE IF pruned = {} THEN [c EXCEPT !.cands = pruned, !.out = "crash"]
             ELSE IF pindexOldTip = NoBlock \/ nChainWork(c.tip) > nChainWork(pindexOldTip)
             THEN [c EXCEPT !.cands = pruned, !.out = "break"]
             ELSE ConnectBatch([c EXCEPT !.cands = pruned], Tail(vpindexToConnect),
                               pindexMostWork, pblock, pindexOldTip)

\* the while loop of ActivateBestChainStep that builds and connects the batches
RECURSIVE ConnectBatches(_, _, _, _, _)
ConnectBatches(s, nHeightDone, pindexMostWork, pblock, pindexOldTip) ==
    IF nHeightDone = nHeight(pindexMostWork) THEN s
    ELSE LET nTargetHeight == Min(nHeightDone + nConnectBatch, nHeight(pindexMostWork))
             batch == { x \in AncestorsOf(pindexMostWork) :
                          nHeight(x) > nHeightDone /\ nHeight(x) <= nTargetHeight }
             r == ConnectBatch(s, Ascending(batch), pindexMostWork, pblock, pindexOldTip)
         IN  IF r.out = "continue"
             THEN ConnectBatches(r, nTargetHeight, pindexMostWork, pblock, pindexOldTip)
             ELSE r

RECURSIVE DisconnectToFork(_, _)
DisconnectToFork(s, pindexFork) ==
    IF s.tip # NoBlock /\ s.tip # pindexFork
    THEN DisconnectToFork(DisconnectTip(s), pindexFork)
    ELSE s

\* ActivateBestChainStep(pindexMostWork, pblock)
ActivateBestChainStep(s, pindexMostWork, pblock) ==
    LET pindexOldTip == s.tip
        pindexFork   == FindFork(s.tip, pindexMostWork)
    IN  ConnectBatches(DisconnectToFork(s, pindexFork),
                       IF pindexFork # NoBlock THEN nHeight(pindexFork) ELSE -1,
                       pindexMostWork, pblock, pindexOldTip)

\* a caller without a block enters ActivateBestChain (init, RPC, miner)
ActivateBestChain ==
    /\ Alive /\ ~shutdownRequested
    /\ abc.pc = "idle"
    /\ abc' = [AbcIdle EXCEPT !.pc = "top"]
    /\ hInterfered' = FALSE
    /\ hConnectFailed' = {}
    /\ UNCHANGED <<mapBlockIndex, nStatus, nChainTx, nSequenceId, setBlockIndexCandidates,
                   mapBlocksUnlinked, chainTip, nBlockSequenceId, nBlockReverseSequenceId,
                   nLastPreciousChainwork, g_failed_blocks, shutdownRequested,
                   nScriptCheckThreads, blockKind, hMaxTipWork, hInvalidateCalled, hRpcOps>>
    /\ UNCHANGED <<laterVars, cv, mp, hInvalidation, hEverFailed>>

\* the shutdown poll at the top of the loop: break, and the call returns true
ABC_ShutdownBreak ==
    /\ Alive
    /\ abc.pc = "top"
    /\ shutdownRequested
    /\ abc' = [abc EXCEPT !.pc = "retTrue"]
    /\ UNCHANGED <<mapBlockIndex, nStatus, nChainTx, nSequenceId, setBlockIndexCandidates,
                   mapBlocksUnlinked, chainTip, nBlockSequenceId, nBlockReverseSequenceId,
                   nLastPreciousChainwork, g_failed_blocks, shutdownRequested,
                   nScriptCheckThreads, blockKind, hMaxTipWork, hInvalidateCalled,
                   hInterfered, hConnectFailed, hRpcOps>>
    /\ UNCHANGED <<laterVars, cv, mp, hInvalidation, hEverFailed>>

\* one iteration of the loop under cs_main: pick the target (kept from the
\* previous iteration unless that one found an invalid block), return true
\* if there is nothing to do, otherwise run ActivateBestChainStep and either
\* loop or return
ABC_Iteration ==
    /\ Alive
    /\ abc.pc = "top"
    /\ ~shutdownRequested
    /\ LET f == IF abc.mostWork = NoBlock
                THEN FindMostWorkChain([st |-> nStatus, cands |-> setBlockIndexCandidates,
                                        unl |-> mapBlocksUnlinked])
                ELSE [st |-> nStatus, cands |-> setBlockIndexCandidates,
                      unl |-> mapBlocksUnlinked, best |-> abc.mostWork]
           s0 == [tip |-> chainTip, st |-> f.st, cands |-> f.cands,
                  failed |-> g_failed_blocks, hmax |-> hMaxTipWork, bad |-> {},
                  out |-> "start"]
           nothing == f.best = NoBlock \/ f.best = chainTip
           r  == IF nothing THEN s0 ELSE ActivateBestChainStep(s0, f.best, abc.pblock)
           pindexMostWork == IF r.out = "invalid" THEN NoBlock ELSE f.best
       IN  /\ mapBlocksUnlinked' = f.unl
           /\ chainTip' = r.tip
           /\ nStatus' = r.st
           /\ setBlockIndexCandidates' = r.cands
           /\ g_failed_blocks' = r.failed
           /\ hMaxTipWork' = r.hmax
           /\ hConnectFailed' = hConnectFailed \cup r.bad
           /\ hEverFailed' = (hEverFailed \/ r.out \in {"invalid", "abort"})
           /\ shutdownRequested' = (r.out = "abort")
           /\ abc' = [abc EXCEPT
                 !.mostWork = pindexMostWork,
                 !.fInvalidFound = (r.out = "invalid"),
                 !.pc = CASE nothing -> "retTrue"
                             [] r.out = "abort" -> "retFalse"
                             [] r.out = "crash" -> "crashed"
                             [] r.tip # pindexMostWork -> "top"
                             [] OTHER -> "retTrue"]
    /\ UNCHANGED <<mapBlockIndex, nChainTx, nSequenceId, nBlockSequenceId,
                   nBlockReverseSequenceId, nLastPreciousChainwork,
                   nScriptCheckThreads, blockKind, hInvalidateCalled, hInterfered, hRpcOps>>
    /\ UNCHANGED <<laterVars, cv, mp, hInvalidation>>

\* the caller has seen the result of ActivateBestChain
ABC_Return ==
    /\ Alive
    /\ abc.pc \in {"retTrue", "retFalse"}
    /\ abc' = AbcIdle
    /\ UNCHANGED <<mapBlockIndex, nStatus, nChainTx, nSequenceId, setBlockIndexCandidates,
                   mapBlocksUnlinked, chainTip, nBlockSequenceId, nBlockReverseSequenceId,
                   nLastPreciousChainwork, g_failed_blocks, shutdownRequested,
                   nScriptCheckThreads, blockKind, hMaxTipWork, hInvalidateCalled,
                   hInterfered, hConnectFailed, hRpcOps>>
    /\ UNCHANGED <<laterVars, cv, mp, hInvalidation, hEverFailed>>

\* StartShutdown() from anywhere
StartShutdown ==
    /\ Alive
    /\ ~shutdownRequested
    /\ abc.pc = "top"
    /\ shutdownRequested' = TRUE
    /\ UNCHANGED <<mapBlockIndex, nStatus, nChainTx, nSequenceId, setBlockIndexCandidates,
                   mapBlocksUnlinked, chainTip, nBlockSequenceId, nBlockReverseSequenceId,
                   nLastPreciousChainwork, g_failed_blocks, abc,
                   nScriptCheckThreads, blockKind, hMaxTipWork, hInvalidateCalled,
                   hInterfered, hConnectFailed, hRpcOps>>
    /\ UNCHANGED <<laterVars, cv, mp, hInvalidation, hEverFailed>>

\* ---------------------------------------------------------------------------
\* Operator commands
\* ---------------------------------------------------------------------------

\* InvalidateBlock(pindex), called with cs_main held
InvalidateBlockCall(pindex) ==
    /\ Alive /\ ~shutdownRequested
    /\ abc.pc = "idle"
    /\ pindex \in mapBlockIndex /\ pindex # hashGenesisBlock
    /\ LET pindex_was_in_chain == ChainContains(pindex)
           newTip   == IF pindex_was_in_chain THEN hashPrevBlock(pindex) ELSE chainTip
           walked   == IF pindex_was_in_chain
                       THEN AncestorsOf(chainTip) \ AncestorsOf(pindex) ELSE {}
           st1      == [x \in Blocks |->
                          IF x \in walked THEN nStatus[x] \cup {"FAILED_CHILD"}
                          ELSE IF x = pindex THEN nStatus[x] \cup {"FAILED_VALID"}
                          ELSE nStatus[x]]
           cands1   == setBlockIndexCandidates \ (walked \cup {pindex})
           reseed   == { x \in mapBlockIndex :
                           /\ IsValidStatus(st1[x], "VALID_TRANSACTIONS")
                           /\ nChainTx[x] # 0
                           /\ ~WorkLess(nSequenceId, x, newTip) }
       IN  /\ chainTip' = newTip
           /\ nStatus' = st1
           /\ g_failed_blocks' = g_failed_blocks \cup {pindex}
           /\ setBlockIndexCandidates' = cands1 \cup reseed
    /\ hInvalidateCalled' = TRUE
    /\ hRpcOps' = hRpcOps + 1
    /\ hInvalidation' = IF hInvalidation.on
                        THEN [hInvalidation EXCEPT !.pindex = pindex, !.tip = chainTip,
                                                   !.index = mapBlockIndex,
                                                   !.data =
                                                       { x \in Blocks :
                                                           "HAVE_DATA" \in nStatus[x] },
                                                   !.fTipWasBest =
                                                       \A x \in setBlockIndexCandidates :
                                                           ~WorkLess(nSequenceId, chainTip, x),
                                                   !.fLineClean =
                                                       \A x \in mapBlockIndex :
                                                           (x \in AncestorsOf(pindex)
                                                              \/ pindex \in AncestorsOf(x))
                                                           => nStatus[x] \cap BLOCK_FAILED_MASK = {},
                                                   !.reset = NoBlock]
                        ELSE hInvalidation
    /\ hInterfered' = Interfere
    /\ UNCHANGED <<mapBlockIndex, nChainTx, nSequenceId, mapBlocksUnlinked, nBlockSequenceId,
                   nBlockReverseSequenceId, nLastPreciousChainwork, abc,
                   shutdownRequested, nScriptCheckThreads, blockKind, hMaxTipWork,
                   hConnectFailed>>
    /\ UNCHANGED <<laterVars, cv, mp, hEverFailed>>

\* InvalidateBlock(pindex) for an operator who has commands left
InvalidateBlock(pindex) == hRpcOps < MaxRpcOps /\ InvalidateBlockCall(pindex)

\* ResetBlockFailureFlags that clears the flags and re-inserts no candidate
ResetFlagsOnly(pindex) ==
    /\ Alive /\ ~shutdownRequested
    /\ abc.pc = "idle"
    /\ pindex \in mapBlockIndex
    /\ LET touched == { x \in mapBlockIndex :
                          /\ ~IsValid(x, "VALID_TRANSACTIONS")
                          /\ GetAncestor(x, nHeight(pindex)) = pindex }
           st1     == [x \in Blocks |->
                          IF x \in touched \/ x \in AncestorsOf(pindex)
                          THEN nStatus[x] \ BLOCK_FAILED_MASK ELSE nStatus[x]]
       IN  /\ nStatus' = st1
           /\ nStatus' # nStatus
           /\ setBlockIndexCandidates' = setBlockIndexCandidates
           /\ g_failed_blocks' = g_failed_blocks \ touched
    /\ hRpcOps' = hRpcOps + 1
    /\ hInvalidation' = IF hInvalidation.on
                        THEN [hInvalidation EXCEPT !.reset = pindex]
                        ELSE hInvalidation
    /\ hInterfered' = Interfere
    /\ UNCHANGED <<mapBlockIndex, nChainTx, nSequenceId, mapBlocksUnlinked, chainTip,
                   nBlockSequenceId, nBlockReverseSequenceId, nLastPreciousChainwork, abc,
                   shutdownRequested, nScriptCheckThreads, blockKind, hMaxTipWork,
                   hInvalidateCalled, hConnectFailed>>
    /\ UNCHANGED <<laterVars, cv, mp, hEverFailed>>

\* ResetBlockFailureFlags(pindex), called with cs_main held
ResetBlockFailureFlagsCall(pindex) ==
    /\ Alive /\ ~shutdownRequested
    /\ abc.pc = "idle"
    /\ pindex \in mapBlockIndex
    /\ LET touched == { x \in mapBlockIndex :
                          /\ ~IsValid(x, "VALID_TRANSACTIONS")
                          /\ GetAncestor(x, nHeight(pindex)) = pindex }
           st1     == [x \in Blocks |->
                          IF x \in touched \/ x \in AncestorsOf(pindex)
                          THEN nStatus[x] \ BLOCK_FAILED_MASK ELSE nStatus[x]]
           added   == { x \in touched :
                          /\ IsValidStatus(nStatus[x] \ BLOCK_FAILED_MASK, "VALID_TRANSACTIONS")
                          /\ nChainTx[x] # 0
                          /\ WorkLess(nSequenceId, chainTip, x) }
       IN  /\ nStatus' = st1
           /\ nStatus' # nStatus
           /\ setBlockIndexCandidates' = setBlockIndexCandidates \cup added
           /\ g_failed_blocks' = g_failed_blocks \ touched
    /\ hRpcOps' = hRpcOps + 1
    /\ hInvalidation' = IF hInvalidation.on
                        THEN [hInvalidation EXCEPT !.reset = pindex]
                        ELSE hInvalidation
    /\ hInterfered' = Interfere
    /\ UNCHANGED <<mapBlockIndex, nChainTx, nSequenceId, mapBlocksUnlinked, chainTip,
                   nBlockSequenceId, nBlockReverseSequenceId, nLastPreciousChainwork, abc,
                   shutdownRequested, nScriptCheckThreads, blockKind, hMaxTipWork,
                   hInvalidateCalled, hConnectFailed>>
    /\ UNCHANGED <<laterVars, cv, mp, hEverFailed>>

\* ResetBlockFailureFlags(pindex) for an operator who has commands left
ResetBlockFailureFlags(pindex) == hRpcOps < MaxRpcOps /\ ResetBlockFailureFlagsCall(pindex)

\* PreciousBlock(pindex) up to its call of ActivateBestChain
PreciousBlock(pindex) ==
    /\ Alive /\ ~shutdownRequested
    /\ abc.pc = "idle"
    /\ hRpcOps < MaxRpcOps
    /\ pindex \in mapBlockIndex
    /\ nChainWork(pindex) >= nChainWork(chainTip)
    /\ LET reverseId == IF nChainWork(chainTip) > nLastPreciousChainwork
                        THEN -1 ELSE nBlockReverseSequenceId
           seq1      == [nSequenceId EXCEPT ![pindex] = reverseId]
           cands1    == setBlockIndexCandidates \ {pindex}
       IN  /\ nLastPreciousChainwork' = nChainWork(chainTip)
           /\ nSequenceId' = seq1
           /\ nBlockReverseSequenceId' = reverseId - 1
           /\ setBlockIndexCandidates' =
                 IF IsValid(pindex, "VALID_TRANSACTIONS") /\ nChainTx[pindex] # 0
                 THEN PruneBlockIndexCandidates(cands1 \cup {pindex}, seq1, chainTip)
                 ELSE cands1
    /\ abc' = [AbcIdle EXCEPT !.pc = "top"]
    /\ hRpcOps' = hRpcOps + 1
    /\ hInterfered' = FALSE
    /\ hConnectFailed' = {}
    /\ UNCHANGED <<mapBlockIndex, nStatus, nChainTx, mapBlocksUnlinked, chainTip,
                   nBlockSequenceId, g_failed_blocks, shutdownRequested,
                   nScriptCheckThreads, blockKind, hMaxTipWork, hInvalidateCalled>>
    /\ UNCHANGED <<laterVars, cv, mp, hInvalidation, hEverFailed>>

\* ---------------------------------------------------------------------------
\* The chain controller
\* ---------------------------------------------------------------------------

Next ==
    \/ \E b \in HeaderChoices : ProcessNewBlockHeaders(b)
    \/ \E b \in Blocks, f \in BOOLEAN : ProcessNewBlock(b, f)
    \/ ActivateBestChain
    \/ ABC_ShutdownBreak
    \/ ABC_Iteration
    \/ ABC_Return
    \/ \E b \in InvalidateChoices : InvalidateBlock(b)
    \/ \E b \in ReconsiderChoices : ResetBlockFailureFlags(b)
    \/ \E b \in PreciousChoices : PreciousBlock(b)
    \/ StartShutdown

Spec == Init /\ [][Next]_vars

\* the node when one of the headers to come has a work hash above its target
InitHeaders ==
    /\ InitChain
    /\ nScriptCheckThreads = 0
    /\ blockKind \in HighHashChoices
    /\ cv = CvIdle
    /\ mp = MpIdle
    /\ LaterIdle

NextHeaders ==
    \/ \E b \in HeaderChoices : ProcessNewBlockHeaders(b)
    \/ \E b \in Blocks, f \in BOOLEAN : ProcessNewBlock(b, f)
    \/ ActivateBestChain
    \/ ABC_Iteration
    \/ ABC_Return

SpecHeaders == InitHeaders /\ [][NextHeaders]_vars

\* ---------------------------------------------------------------------------
\* Properties of the chain controller
\* ---------------------------------------------------------------------------

\* x or one of its ancestors carries FAILED_VALID or FAILED_CHILD
HasFailedAncestor(x) == \E a \in AncestorsOf(x) : nStatus[a] \cap BLOCK_FAILED_MASK # {}

\* block data is present for x and for every ancestor not on the active chain
HasDataToChain(x) ==
    \A a \in AncestorsOf(x) \ AncestorsOf(chainTip) : "HAVE_DATA" \in nStatus[a]

\* a connectable entry: reached VALID_TRANSACTIONS, data for the whole path,
\* no failure flag on it or on any ancestor
Connectable(x) ==
    /\ x \in mapBlockIndex
    /\ "VALID_TRANSACTIONS" \in nStatus[x]
    /\ HasDataToChain(x)
    /\ ~HasFailedAncestor(x)

C3_TipIsBest ==
    (abc.pc = "retTrue" /\ ~shutdownRequested /\ ~hInterfered) =>
        \A x \in Blocks : Connectable(x) => ~CBlockIndexWorkComparator(chainTip, x)

\* C4 (as stated): every candidate has VALID_TRANSACTIONS, at least the tip's
\* work, and no failure flag on itself or any ancestor.
C4_CandidateSound ==
    Alive => \A c \in setBlockIndexCandidates :
                /\ "VALID_TRANSACTIONS" \in nStatus[c]
                /\ nChainWork(c) >= nChainWork(chainTip)
                /\ ~HasFailedAncestor(c)

\* C5 (as stated): at every observable state the active tip is in the candidate
\* set unless InvalidateBlock moved it.
C5_TipIsCandidate ==
    (Alive /\ ~hInvalidateCalled) => chainTip \in setBlockIndexCandidates

\* C6 (as stated): every entry that sorts at least as good as the tip, has
\* nChainTx # 0, no failed ancestor and data for all its ancestors is a candidate.
C6_CandidateComplete ==
    Alive => \A x \in mapBlockIndex :
                ( /\ ~CBlockIndexWorkComparator(x, chainTip)
                  /\ nChainTx[x] # 0
                  /\ ~HasFailedAncestor(x)
                  /\ \A a \in AncestorsOf(x) : "HAVE_DATA" \in nStatus[a] )
                => x \in setBlockIndexCandidates

\* C7 (as stated): once ActivateBestChain returns, a block whose connection got
\* an invalid verdict carries FAILED_VALID and every descendant in the block
\* index carries FAILED_CHILD.
C7_MarkFailed ==
    Returning =>
        \A b \in hConnectFailed :
            /\ "FAILED_VALID" \in nStatus[b]
            /\ \A d \in DescendantsOf(b) \cap mapBlockIndex : "FAILED_CHILD" \in nStatus[d]

\* the assert of PruneBlockIndexCandidates never fails
NoCrash == Alive

C4_CandidateSoundFlags ==
    Alive => \A c \in setBlockIndexCandidates :
                /\ "VALID_TRANSACTIONS" \in nStatus[c]
                /\ nChainTx[c] # 0
                /\ ~CBlockIndexWorkComparator(c, chainTip)
                /\ nChainWork(c) >= nChainWork(chainTip)

\* C7 (amended): once ActivateBestChain returns true with no shutdown requested
\* and no other thread acting during the call, a block whose connection got an
\* invalid verdict carries FAILED_VALID, and neither it nor any descendant of
\* it is in the candidate set.
C7_MarkFailedCandidates ==
    (abc.pc = "retTrue" /\ ~shutdownRequested /\ ~hInterfered) =>
        \A b \in hConnectFailed :
            /\ "FAILED_VALID" \in nStatus[b]
            /\ ({b} \cup DescendantsOf(b)) \cap setBlockIndexCandidates = {}

C4_FailedCandidate ==
    /\ Alive
    /\ chainTip # hashGenesisBlock
    /\ \E c \in setBlockIndexCandidates : HasFailedAncestor(c)

\* C7 witness: an undisturbed call returns true after an invalid verdict on a
\* block that has a descendant in the block index
C7_FailedWithDescendant ==
    /\ abc.pc = "retTrue" /\ ~shutdownRequested /\ ~hInterfered
    /\ \E b \in hConnectFailed : DescendantsOf(b) \cap mapBlockIndex # {}

\* ---------------------------------------------------------------------------
\* One block against the coin view and the token state:
\* ConnectTip / ConnectBlock / DisconnectTip / DisconnectBlock
\* ---------------------------------------------------------------------------

\* amounts are counted in this many units per coin
COIN == 1

\* operations in one run
MaxConnectOps == 3

MAX_BLOCK_SIGOPS_COST == 80000

\* CTxOut; token is the amount of the token payload of the script, 0 for none
TxOut(nValue, scriptPubKey, token) ==
    [nValue |-> nValue, scriptPubKey |-> scriptPubKey, token |-> token]

\* scripts: "A", "B", "S" pay to an address, "OFF" is an offline-staking
\* script, "RET" is OP_RETURN data, "" is the empty script
IsUnspendable(scriptPubKey) == scriptPubKey = "RET"

IsOfflineStaking(scriptPubKey) == scriptPubKey = "OFF"

\* Coin
Coin(out, height, fCoinBase, fCoinStake) ==
    [out |-> out, nHeight |-> height, fCoinBase |-> fCoinBase, fCoinStake |-> fCoinStake]

\* CTransaction; kind is "coinbase", "coinstake" or "normal"; scriptOk says
\* whether the scripts of its inputs verify; sigops is its sigop cost
Tx(txid, kind, vin, vout, scriptOk, sigops) ==
    [txid |-> txid, kind |-> kind, vin |-> vin, vout |-> vout,
     scriptOk |-> scriptOk, sigops |-> sigops]

\* the transactions blocks are made of
TxTable ==
    [cbPre    |-> Tx("cbPre", "coinbase", <<>>, <<TxOut(1000000000 * COIN, "A", 0)>>, TRUE, 1),
     cbPreBig |-> Tx("cbPreBig", "coinbase", <<>>,
                     <<TxOut(1000000000 * COIN + 1, "A", 0)>>, TRUE, 1),
     cb2      |-> Tx("cb2", "coinbase", <<>>, <<TxOut(10 * COIN, "A", 0)>>, TRUE, 1),
     cb2Big   |-> Tx("cb2Big", "coinbase", <<>>, <<TxOut(10 * COIN + 1, "A", 0)>>, TRUE, 1),
     cb10     |-> Tx("cb10", "coinbase", <<>>, <<TxOut(10 * COIN, "A", 0)>>, TRUE, 1),
     cb11     |-> Tx("cb11", "coinbase", <<>>, <<TxOut(11 * COIN, "A", 0)>>, TRUE, 1),
     cb12     |-> Tx("cb12", "coinbase", <<>>, <<TxOut(12 * COIN, "A", 0)>>, TRUE, 1),
     cb7      |-> Tx("cb7", "coinbase", <<>>, <<TxOut(10 * COIN, "B", 0)>>, TRUE, 1),
     cbEmpty  |-> Tx("cbEmpty", "coinbase", <<>>, <<TxOut(0, "", 0)>>, TRUE, 0),
     \* a coinbase that is byte for byte the coinbase of an earlier block
     cbDup    |-> Tx("c4", "coinbase", <<>>, <<TxOut(10 * COIN, "A", 0)>>, TRUE, 1),
     t1       |-> Tx("t1", "normal", << <<"ta", 0>> >>,
                     <<TxOut(30 * COIN, "B", 0), TxOut(19 * COIN, "A", 0), TxOut(0, "RET", 0)>>,
                     TRUE, 1),
     t1s      |-> Tx("t1s", "normal", << <<"ta", 0>> >>,
                     <<TxOut(30 * COIN, "B", 0), TxOut(19 * COIN, "A", 0)>>, FALSE, 1),
     t2       |-> Tx("t2", "normal", << <<"t1", 0>> >>, <<TxOut(30 * COIN, "A", 0)>>, TRUE, 1),
     t3       |-> Tx("t3", "normal", << <<"t1", 1>> >>, <<TxOut(19 * COIN, "B", 0)>>, TRUE, 1),
     tMissing |-> Tx("tMissing", "normal", << <<"zz", 0>> >>,
                     <<TxOut(1 * COIN, "A", 0)>>, TRUE, 1),
     tBelow   |-> Tx("tBelow", "normal", << <<"t1", 1>> >>,
                     <<TxOut(20 * COIN, "B", 0)>>, TRUE, 1),
     tSigops  |-> Tx("tSigops", "normal", << <<"t1", 1>> >>, <<TxOut(19 * COIN, "B", 0)>>,
                     TRUE, MAX_BLOCK_SIGOPS_COST),
     tToken   |-> Tx("tToken", "normal", << <<"tb", 0>> >>, <<TxOut(0, "A", 7)>>, TRUE, 1),
     tTokenBad |-> Tx("tTokenBad", "normal", << <<"tb", 0>> >>, <<TxOut(0, "A", 9)>>, TRUE, 1),
     cs       |-> Tx("cs", "coinstake", << <<"tk", 0>> >>,
                     <<TxOut(0, "", 0), TxOut(109 * COIN, "OFF", 0), TxOut(1 * COIN, "S", 0)>>,
                     TRUE, 1),
     csBig    |-> Tx("csBig", "coinstake", << <<"tk", 0>> >>,
                     <<TxOut(0, "", 0), TxOut(110 * COIN, "OFF", 0), TxOut(1 * COIN, "S", 0)>>,
                     TRUE, 1),
     csGreedy |-> Tx("csGreedy", "coinstake", << <<"tk", 0>> >>,
                     <<TxOut(0, "", 0), TxOut(108 * COIN, "OFF", 0), TxOut(2 * COIN, "S", 0)>>,
                     TRUE, 1),
     csFeeGreedy |-> Tx("csFeeGreedy", "coinstake", << <<"tk", 0>> >>,
                     <<TxOut(0, "", 0), TxOut(109 * COIN, "OFF", 0), TxOut(2 * COIN, "S", 0)>>,
                     TRUE, 1)]

\* CBlock: predecessor, proof type, transactions
Block(prev, fProofOfStake, names) ==
    [hashPrevBlock |-> prev, fProofOfStake |-> fProofOfStake,
     vtx |-> [i \in 1..Len(names) |-> TxTable[names[i]]]]

\* the blocks offered to ConnectTip.  "G" is genesis (height 0, empty coin
\* view); "S5" stands for a tip at height 5 with the coins of StartCoins
BlockTable ==
    [Ppre       |-> Block("G", FALSE, <<"cbPre">>),
     PpreBig    |-> Block("G", FALSE, <<"cbPreBig">>),
     P2         |-> Block("Ppre", FALSE, <<"cb2">>),
     P2big      |-> Block("Ppre", FALSE, <<"cb2Big">>),
     Bok        |-> Block("S5", FALSE, <<"cb11", "t1">>),
     Bchain     |-> Block("S5", FALSE, <<"cb11", "t1", "t2">>),
     BcbBig     |-> Block("S5", FALSE, <<"cb12", "t1">>),
     Bscript    |-> Block("S5", FALSE, <<"cb11", "t1s">>),
     Bmissing   |-> Block("S5", FALSE, <<"cb11", "t1", "tMissing">>),
     Bbelow     |-> Block("S5", FALSE, <<"cb10", "t1", "tBelow">>),
     Bsigops    |-> Block("S5", FALSE, <<"cb11", "t1", "tSigops">>),
     Btoken     |-> Block("S5", FALSE, <<"cb10", "tToken">>),
     BtokenBad  |-> Block("S5", FALSE, <<"cb11", "t1", "tTokenBad">>),
     Bpos       |-> Block("S5", TRUE, <<"cbEmpty", "cs">>),
     BposBig    |-> Block("S5", TRUE, <<"cbEmpty", "csBig">>),
     BposGreedy |-> Block("S5", TRUE, <<"cbEmpty", "csGreedy">>),
     BposFee    |-> Block("S5", TRUE, <<"cbEmpty", "cs", "t1">>),
     BposFeeGreedy |-> Block("S5", TRUE, <<"cbEmpty", "csFeeGreedy", "t1">>),
     Bdup       |-> Block("S5", FALSE, <<"cbDup">>),
     Cok        |-> Block("Bok", FALSE, <<"cb7", "t3">>)]

BlockIds == DOMAIN BlockTable

StartTips == {"G", "S5"}

\* height of a start tip or of a block of the table
RECURSIVE BlockHeight(_)
BlockHeight(b) ==
    IF b = "G" THEN 0
    ELSE IF b = "S5" THEN 5
    ELSE BlockHeight(BlockTable[b].hashPrevBlock) + 1

\* the unspent coins under the tip S5: a plain coin, a coin carrying 7 units
\* of a token, a coin on an offline-staking script, and the coinbase of block 4
StartCoins ==
    (<<"ta", 0>> :> Coin(TxOut(50 * COIN, "A", 0), 2, FALSE, FALSE)) @@
    (<<"tb", 0>> :> Coin(TxOut(0, "B", 7), 3, FALSE, FALSE)) @@
    (<<"tk", 0>> :> Coin(TxOut(100 * COIN, "OFF", 0), 1, FALSE, FALSE)) @@
    (<<"c4", 0>> :> Coin(TxOut(10 * COIN, "A", 0), 4, TRUE, FALSE))

TokenHolders == {"A", "B"}

\* token balance per holder under the tip S5
StartTokens == [a \in TokenHolders |-> IF a = "B" THEN 7 ELSE 0]

\* ---- CCoinsViewCache and CTokensCache ----

HaveCoin(view, o) == o \in DOMAIN view

\* AddCoin with possible_overwrite
AddCoin(view, o, coin) == [x \in DOMAIN view \cup {o} |-> IF x = o THEN coin ELSE view[x]]

EraseCoin(view, o) == [x \in DOMAIN view \ {o} |-> view[x]]

\* a token-bearing output enters / leaves the ownership table
TokenAdd(tokens, out) ==
    IF out.token > 0 THEN [tokens EXCEPT ![out.scriptPubKey] = @ + out.token] ELSE tokens

TokenSpend(tokens, out) ==
    IF out.token > 0 THEN [tokens EXCEPT ![out.scriptPubKey] = @ - out.token] ELSE tokens

\* SpendCoin(outpoint, moveto, tokenCache) on s = [view, tokens, txundo]
SpendCoin(s, o) ==
    [view   |-> EraseCoin(s.view, o),
     tokens |-> TokenSpend(s.tokens, s.view[o].out),
     txundo |-> Append(s.txundo, s.view[o])]

\* ---- amounts ----

RECURSIVE SumValue(_)
SumValue(vout) == IF vout = <<>> THEN 0 ELSE Head(vout).nValue + SumValue(Tail(vout))

RECURSIVE SumToken(_)
SumToken(vout) == IF vout = <<>> THEN 0 ELSE Head(vout).token + SumToken(Tail(vout))

GetValueOut(tx) == SumValue(tx.vout)

\* the outputs the inputs of a transaction spend
PrevOuts(view, vin) == [i \in 1..Len(vin) |-> view[vin[i]].out]

GetValueIn(view, tx) == SumValue(PrevOuts(view, tx.vin))

\* the premine paid at every height
GetBlockSubsidyFlat(height) == 1000000000 * COIN

\* GetBlockSubsidy(nHeight)
GetBlockSubsidy(height) == IF height = 1 THEN 1000000000 * COIN ELSE 10 * COIN

\* the two shares the wrong way round
OfflineShareSwapped(blockReward) == blockReward \div 10

\* blockReward * 0.9 and blockReward * 0.1 converted back to CAmount
OfflineShare(blockReward) == (blockReward \div 10) * 9 + ((blockReward % 10) * 9) \div 10

StakerShare(blockReward) == blockReward \div 10

\* ---- per-transaction checks ----

\* Consensus::CheckTxInputs: inputs present, value in >= value out (a
\* coinstake creates value and is exempt)
CheckTxInputs(tx, view) ==
    IF \E i \in 1..Len(tx.vin) : ~HaveCoin(view, tx.vin[i])
    THEN "bad-txns-inputs-missingorspent"
    ELSE IF tx.kind # "coinstake" /\ GetValueIn(view, tx) < GetValueOut(tx)
    THEN "bad-txns-in-belowout"
    ELSE "ok"

\* the fee CheckTxInputs reports
TxFee(tx, view) == IF tx.kind = "coinstake" THEN 0 ELSE GetValueIn(view, tx) - GetValueOut(tx)

\* Consensus::CheckTxTokens: token units in = token units out
CheckTxTokens(tx, view) ==
    IF SumToken(PrevOuts(view, tx.vin)) # SumToken(tx.vout)
    THEN "bad-tx-token-inputs-amount-mismatch"
    ELSE "ok"

\* CheckInputs(tx, ..., pvChecks): with pvChecks the script checks are pushed
\* onto it and the call returns true; without, they run inline
CheckInputs(tx, fQueue) == fQueue \/ tx.scriptOk

\* ---- UpdateCoins ----

RECURSIVE SpendInputs(_, _)
SpendInputs(s, vin) ==
    IF vin = <<>> THEN s ELSE SpendInputs(SpendCoin(s, Head(vin)), Tail(vin))

\* AddCoins(view, tx, nHeight, ...): outputs n, n+1, ... of tx (1-based here)
RECURSIVE AddCoins(_, _, _, _)
AddCoins(s, tx, height, n) ==
    IF n > Len(tx.vout) THEN s
    ELSE LET out == tx.vout[n]
         IN  AddCoins(IF IsUnspendable(out.scriptPubKey) THEN s
                      ELSE [s EXCEPT
                              !.view = AddCoin(@, <<tx.txid, n - 1>>,
                                               Coin(out, height, tx.kind = "coinbase",
                                                    tx.kind = "coinstake")),
                              !.tokens = TokenAdd(@, out)],
                      tx, height, n + 1)

\* UpdateCoins(tx, inputs, txundo, nHeight, ...) on s = [view, tokens, txundo]
UpdateCoins(s, tx, height) ==
    AddCoins(IF tx.kind = "coinbase" THEN s ELSE SpendInputs(s, tx.vin), tx, height, 1)

\* ---- ConnectBlock ----

\* the loop body of ConnectBlock for transaction number i (1-based).
\* r = [view, tokens, txundo, nFees, nActualStakeReward, nSigOpsCost, vtxundo,
\*      vChecks, reject]; vChecks collects what control.Add() was given
ConnectTx(r, tx, i, height, nThreads) ==
    LET fCoinBase   == tx.kind = "coinbase"
        inputs      == IF fCoinBase THEN "ok" ELSE CheckTxInputs(tx, r.view)
        tokenRule   == IF fCoinBase \/ inputs # "ok" THEN "ok" ELSE CheckTxTokens(tx, r.view)
        nFees       == IF fCoinBase \/ inputs # "ok" THEN r.nFees
                       ELSE r.nFees + TxFee(tx, r.view)
        nSigOpsCost == r.nSigOpsCost + tx.sigops
        u           == UpdateCoins([view |-> r.view, tokens |-> r.tokens, txundo |-> <<>>],
                                   tx, height)
    IN  CASE inputs # "ok"    -> [r EXCEPT !.reject = inputs]
          [] tokenRule # "ok" -> [r EXCEPT !.reject = tokenRule]
          [] nSigOpsCost > MAX_BLOCK_SIGOPS_COST ->
                [r EXCEPT !.nFees = nFees, !.nSigOpsCost = nSigOpsCost,
                          !.reject = "bad-blk-sigops"]
          [] ~fCoinBase /\ ~CheckInputs(tx, nThreads # 0) ->
                [r EXCEPT !.nFees = nFees, !.nSigOpsCost = nSigOpsCost,
                          !.reject = "mandatory-script-verify-flag-failed"]
          [] OTHER ->
                [r EXCEPT !.view = u.view,
                          !.tokens = u.tokens,
                          !.nFees = nFees,
                          !.nSigOpsCost = nSigOpsCost,
                          !.nActualStakeReward =
                              IF tx.kind = "coinstake"
                              THEN GetValueOut(tx) - GetValueIn(r.view, tx) ELSE @,
                          !.vtxundo = IF i > 1 THEN Append(@, u.txundo) ELSE @,
                          !.vChecks = IF ~fCoinBase /\ nThreads # 0
                                      THEN @ \cup {tx.scriptOk} ELSE @]

\* the loop over block.vtx, left at the first failure
RECURSIVE ConnectTxs(_, _, _, _, _)
ConnectTxs(r, vtx, i, height, nThreads) ==
    IF i > Len(vtx) \/ r.reject # "" THEN r
    ELSE ConnectTxs(ConnectTx(r, vtx[i], i, height, nThreads), vtx, i + 1, height, nThreads)

\* outputs 1.. (0-based) of the coinstake paying / not paying to a script
RECURSIVE SumValueTo(_, _, _)
SumValueTo(vout, scriptPubKey, fSame) ==
    IF vout = <<>> THEN 0
    ELSE (IF (Head(vout).scriptPubKey = scriptPubKey) = fSame THEN Head(vout).nValue ELSE 0)
         + SumValueTo(Tail(vout), scriptPubKey, fSame)

\* the verdict of the checks of ConnectBlock, "" when all pass.  The blocks
\* of the table have the right target, a mature kernel and a kernel hash that
\* meets the target
ConnectBlockChecks(block, view, r, height) ==
    LET fKernel       == block.fProofOfStake /\ HaveCoin(view, block.vtx[2].vin[1])
        kernel        == view[block.vtx[2].vin[1]]
        fCheckOffline == fKernel /\ IsOfflineStaking(kernel.out.scriptPubKey)
        nRewardOffline == SumValueTo(Tail(block.vtx[2].vout), kernel.out.scriptPubKey, TRUE)
                          - kernel.out.nValue
        nRewardStaker == SumValueTo(Tail(block.vtx[2].vout), kernel.out.scriptPubKey, FALSE)
        blockReward   == r.nFees + GetBlockSubsidy(height)
    IN  CASE block.fProofOfStake /\ ~fKernel -> "bad-cs-kernel"
          [] r.reject # "" -> r.reject
          [] ~block.fProofOfStake /\ GetValueOut(block.vtx[1]) > blockReward -> "bad-cb-amount"
          [] block.fProofOfStake /\ r.nActualStakeReward > blockReward -> "bad-cs-amount"
          [] fCheckOffline /\ nRewardOffline < OfflineShare(blockReward) -> "bad-offline-stake"
          [] fCheckOffline /\ nRewardStaker > StakerShare(blockReward) ->
                "bad-offline-stake-greed"
          [] OTHER -> ""

\* the transaction loop of ConnectBlock on a fresh accumulator; a coinstake
\* whose kernel is missing is rejected before the loop
ConnectBlockLoop(block, height, view, tokens, nThreads) ==
    LET r0 == [view |-> view, tokens |-> tokens, txundo |-> <<>>, nFees |-> 0,
               nActualStakeReward |-> 0, nSigOpsCost |-> 0, vtxundo |-> <<>>,
               vChecks |-> {}, reject |-> ""]
    IN  IF block.fProofOfStake /\ ~HaveCoin(view, block.vtx[2].vin[1])
        THEN r0 ELSE ConnectTxs(r0, block.vtx, 1, height, nThreads)

\* the end of ConnectBlock: rejection, fJustCheck, the undo record, the index
\* entry's flags, the transaction index
ConnectBlockEnd(st, r, reject, fJustCheck, ioFail) ==
    LET fWrite == "HAVE_UNDO" \notin st \/ ~IsValidStatus(st, "VALID_SCRIPTS")
        stUndo == IF fWrite THEN RaiseValidity(st \cup {"HAVE_UNDO"}, "VALID_SCRIPTS") ELSE st
        res    == [result |-> "ok", reject |-> "", view |-> r.view, tokens |-> r.tokens,
                   st |-> st, blockundo |-> <<>>, fUndo |-> FALSE, vChecks |-> r.vChecks]
    IN  CASE reject # "" -> [res EXCEPT !.result = "invalid", !.reject = reject]
          [] fJustCheck -> res
          [] fWrite /\ "HAVE_UNDO" \notin st /\ ioFail = "undo" ->
                [res EXCEPT !.result = "abort"]
          [] ioFail = "txindex" ->
                [res EXCEPT !.result = "abort", !.st = stUndo,
                            !.blockundo = r.vtxundo, !.fUndo = "HAVE_UNDO" \notin st]
          [] OTHER ->
                [res EXCEPT !.st = stUndo, !.blockundo = r.vtxundo, !.fUndo = "HAVE_UNDO" \notin st]

\* the part of ConnectBlock after the transaction loop, r being what the loop left
ConnectBlockAfterLoop(block, height, st, view, r, fJustCheck, ioFail) ==
    ConnectBlockEnd(st, r, ConnectBlockChecks(block, view, r, height), fJustCheck, ioFail)

\* ConnectBlock(block, state, pindex, view, chainparams, tokensCache, fJustCheck).
\* height and st are pindex->nHeight and pindex->nStatus, ioFail names the disk
\* write that fails ("none", "undo", "txindex").  Result:
\*   result     "ok" (true), "invalid" (false, state.IsInvalid()), "abort"
\*   reject     the reject reason
\*   view, tokens   the overlay as ConnectBlock leaves it
\*   st, blockundo  the index entry's status and the undo record written
\*   vChecks    the results of the script checks given to the check queue
ConnectBlock(block, height, st, view, tokens, fJustCheck, nThreads, ioFail) ==
    ConnectBlockAfterLoop(block, height, st, view,
                          ConnectBlockLoop(block, height, view, tokens, nThreads),
                          fJustCheck, ioFail)

\* ---- DisconnectBlock ----

\* a spent coin that is not put back
ApplyTxInUndoSkip(d, undo, o) == d

\* ApplyTxInUndo(undo, view, out, tokenCache) on d = [view, tokens, fClean, fFailed]
ApplyTxInUndo(d, undo, o) ==
    LET alternates == { x \in DOMAIN d.view : x[1] = o[1] }
        alternate  == d.view[CHOOSE x \in alternates : TRUE]
        restored   == IF undo.nHeight = 0
                      THEN [undo EXCEPT !.nHeight = alternate.nHeight,
                                        !.fCoinBase = alternate.fCoinBase,
                                        !.fCoinStake = alternate.fCoinStake]
                      ELSE undo
    IN  IF undo.nHeight = 0 /\ alternates = {}
        THEN [d EXCEPT !.fFailed = TRUE]
        ELSE [d EXCEPT !.view = AddCoin(@, o, restored),
                       !.tokens = TokenAdd(@, undo.out),
                       !.fClean = @ /\ ~HaveCoin(d.view, o)]

\* the inputs of a transaction restored from its undo vector, last first
RECURSIVE RestoreInputs(_, _, _, _)
RestoreInputs(d, vin, txundo, j) ==
    IF j = 0 \/ d.fFailed THEN d
    ELSE RestoreInputs(ApplyTxInUndo(d, txundo[j], vin[j]), vin, txundo, j - 1)

\* the outputs n, n+1, ... of a transaction removed from the view; the coin is
\* spent against a scratch copy of the token cache, the transfer is taken out
\* of the real one by RemoveTransfer
RECURSIVE RemoveOutputs(_, _, _, _)
RemoveOutputs(d, tx, height, n) ==
    IF n > Len(tx.vout) THEN d
    ELSE LET out == tx.vout[n]
             o   == <<tx.txid, n - 1>>
             fMismatch == \/ ~HaveCoin(d.view, o)
                          \/ d.view[o].out # out
                          \/ d.view[o].nHeight # height
                          \/ d.view[o].fCoinBase # (tx.kind = "coinbase")
         IN  RemoveOutputs(IF IsUnspendable(out.scriptPubKey) THEN d
                           ELSE [d EXCEPT !.view = EraseCoin(@, o),
                                          !.tokens = TokenSpend(@, out),
                                          !.fClean = @ /\ ~fMismatch],
                           tx, height, n + 1)

\* the loop of DisconnectBlock over the transactions i, i-1, ..., 1
RECURSIVE DisconnectTxs(_, _, _, _, _)
DisconnectTxs(d, vtx, vtxundo, height, i) ==
    IF i = 0 \/ d.fFailed THEN d
    ELSE LET tx == vtx[i]
             d1 == RemoveOutputs(d, tx, height, 1)
             d2 == IF i = 1 THEN d1
                   ELSE IF Len(vtxundo[i - 1]) # Len(tx.vin)
                   THEN [d1 EXCEPT !.fFailed = TRUE]
                   ELSE RestoreInputs(d1, tx.vin, vtxundo[i - 1], Len(tx.vin))
         IN  DisconnectTxs(d2, vtx, vtxundo, height, i - 1)

\* the value DisconnectBlock returns, with the view it leaves
DisconnectResult(d) ==
    [result |-> IF d.fFailed THEN "DISCONNECT_FAILED"
                ELSE IF d.fClean THEN "DISCONNECT_OK" ELSE "DISCONNECT_UNCLEAN",
     view |-> d.view, tokens |-> d.tokens]

\* DisconnectBlock(block, pindex, view, tokensCache); height and st are
\* pindex->nHeight and pindex->nStatus, blockundo what UndoReadFromDisk returns
DisconnectBlock(block, height, st, blockundo, view, tokens) ==
    LET d0 == [view |-> view, tokens |-> tokens, fClean |-> TRUE, fFailed |-> FALSE]
    IN  DisconnectResult(
            IF "HAVE_UNDO" \notin st \/ Len(blockundo) + 1 # Len(block.vtx)
            THEN [d0 EXCEPT !.fFailed = TRUE]
            ELSE DisconnectTxs(d0, block.vtx, blockundo, height, Len(block.vtx)))

\* ---- the coin view machine ----
\* cv is a record:
\*   pc             "ready", "aborted" after AbortNode, or "crashed" after a
\*                  failed assert
\*   nBIP34Enabled  consensus parameter read by ContextualCheckBlock
\*   pcoinsTip, ptokens, hashBestBlock   tip coin view, token state, best block
\*   tip            chainActive.Tip()
\*   index, undo    nStatus and undo record of every block of the table
\*   nOps           operations so far
\*   pre, last, fresh, S   history: the state before the last operation, what
\*                  the last operation did, the block whose connection made the
\*                  present state, the state that block was connected on

\* "flush" is FlushStateToDisk(FLUSH_STATE_IF_NEEDED) returning
\* state.Error("out of disk space") inside ConnectTip or DisconnectTip
IoFailures == {"none", "undo", "txindex", "flush"}

\* the coinbase of b repeats the coinbase of an earlier block of the chain
RepeatsCoinbase(b) ==
    \E o \in DOMAIN StartCoins :
        StartCoins[o].fCoinBase /\ o[1] = BlockTable[b].vtx[1].txid

\* the overlay flushed whatever ConnectBlock returned
ConnectTipFlushAlways(r, pcoinsTip) == r.view

\* ConnectTip: view.Flush() and tokenCache.Flush() run only after ConnectBlock
\* returned true
ConnectTipFlush(r, pcoinsTip) == IF r.result = "ok" THEN r.view ELSE pcoinsTip

InitConnect ==
    /\ InitChain
    /\ nScriptCheckThreads \in ThreadChoices
    /\ blockKind = [b \in Blocks |-> "ok"]
    /\ mp = MpIdle
    /\ LaterIdle
    /\ \E start \in StartTips, bip34 \in BOOLEAN :
          cv = [pc |-> "ready",
                nBIP34Enabled |-> bip34,
                pcoinsTip |-> IF start = "G" THEN <<>> ELSE StartCoins,
                ptokens |-> IF start = "G" THEN [a \in TokenHolders |-> 0] ELSE StartTokens,
                hashBestBlock |-> start,
                tip |-> start,
                index |-> [b \in BlockIds |->
                             LevelsUpTo("VALID_TRANSACTIONS") \cup {"HAVE_DATA"}],
                undo |-> [b \in BlockIds |-> <<>>],
                nOps |-> 0,
                pre |-> [view |-> <<>>, tokens |-> <<>>, tip |-> NoBlock, st |-> {}],
                last |-> [op |-> "none", block |-> NoBlock, result |-> "", reject |-> "",
                          view |-> <<>>, tokens |-> <<>>, fOnConnect |-> FALSE,
                          fStateError |-> FALSE],
                fresh |-> NoBlock,
                S |-> [view |-> <<>>, tokens |-> <<>>]]

\* an assert on the best block of the view fails: the process ends
BestBlockAssertFails(c) ==
    [c EXCEPT !.pc = "crashed", !.nOps = @ + 1, !.last.op = "assert", !.fresh = NoBlock]

\* ConnectTip after ConnectBlock returned r for block b: InvalidBlockFound on
\* an invalid verdict; on success the flushes, then FlushStateToDisk, and the
\* new tip (UpdateTip) only if that returned true
ConnectTipEnd(c, b, r, fFlushStateFails) ==
    LET fTip == r.result = "ok" /\ ~fFlushStateFails
    IN  [c EXCEPT
           !.pc = IF r.result = "abort" THEN "aborted" ELSE "ready",
           !.pcoinsTip = ConnectTipFlush(r, @),
           !.ptokens = IF r.result = "ok" THEN r.tokens ELSE @,
           !.hashBestBlock = IF r.result = "ok" THEN b ELSE @,
           !.tip = IF fTip THEN b ELSE @,
           !.index[b] = IF r.result = "invalid" THEN r.st \cup {"FAILED_VALID"} ELSE r.st,
           !.undo[b] = IF r.fUndo THEN r.blockundo ELSE @,
           !.nOps = @ + 1,
           !.pre = [view |-> c.pcoinsTip, tokens |-> c.ptokens, tip |-> c.tip, st |-> c.index[b]],
           !.last = [op |-> "connect", block |-> b,
                     result |-> r.result, reject |-> r.reject,
                     view |-> r.view, tokens |-> r.tokens, fOnConnect |-> FALSE,
                     fStateError |-> (r.result = "ok" /\ fFlushStateFails)],
           !.fresh = IF fTip THEN b ELSE IF r.result = "ok" THEN NoBlock ELSE @,
           !.S = IF fTip THEN [view |-> c.pcoinsTip, tokens |-> c.ptokens] ELSE @]

\* ConnectTip(pindexNew) for a block on top of the tip; ConnectBlock asserts
\* that the best block of the view is the block's predecessor
CV_ConnectTip(b, ioFail) ==
    /\ cv.pc = "ready"
    /\ cv.nOps < MaxConnectOps
    /\ BlockTable[b].hashPrevBlock = cv.tip
    /\ "FAILED_VALID" \notin cv.index[b]
    /\ RepeatsCoinbase(b) => ~cv.nBIP34Enabled
    /\ cv' = IF cv.hashBestBlock # BlockTable[b].hashPrevBlock THEN BestBlockAssertFails(cv)
             ELSE ConnectTipEnd(cv, b,
                      ConnectBlock(BlockTable[b], BlockHeight(b), cv.index[b], cv.pcoinsTip,
                                   cv.ptokens, FALSE, nScriptCheckThreads, ioFail),
                      ioFail = "flush")
    /\ UNCHANGED <<chainVars, mp, laterVars>>

\* DisconnectTip after DisconnectBlock returned r for the tip b: the flushes
\* only on DISCONNECT_OK, then FlushStateToDisk, and the new tip (UpdateTip)
\* only if that returned true
DisconnectTipEnd(c, b, hashPrev, r, fFlushStateFails) ==
    [c EXCEPT
       !.pc = IF r.result = "DISCONNECT_OK" THEN "ready" ELSE "aborted",
       !.pcoinsTip = IF r.result = "DISCONNECT_OK" THEN r.view ELSE @,
       !.ptokens = IF r.result = "DISCONNECT_OK" THEN r.tokens ELSE @,
       !.hashBestBlock = IF r.result = "DISCONNECT_OK" THEN hashPrev ELSE @,
       !.tip = IF r.result = "DISCONNECT_OK" /\ ~fFlushStateFails THEN hashPrev ELSE @,
       !.nOps = @ + 1,
       !.pre = [view |-> c.pcoinsTip, tokens |-> c.ptokens, tip |-> c.tip, st |-> c.index[b]],
       !.last = [op |-> "disconnect", block |-> b,
                 result |-> r.result, reject |-> "",
                 view |-> r.view, tokens |-> r.tokens, fOnConnect |-> (c.fresh = b),
                 fStateError |-> (r.result = "DISCONNECT_OK" /\ fFlushStateFails)],
       !.fresh = NoBlock]

\* DisconnectTip(), which asserts that the best block of the view is the tip
CV_DisconnectTip(ioFail) ==
    /\ cv.pc = "ready"
    /\ cv.nOps < MaxConnectOps
    /\ cv.tip \in BlockIds
    /\ cv' = IF cv.hashBestBlock # cv.tip THEN BestBlockAssertFails(cv)
             ELSE DisconnectTipEnd(cv, cv.tip, BlockTable[cv.tip].hashPrevBlock,
                      DisconnectBlock(BlockTable[cv.tip], BlockHeight(cv.tip), cv.index[cv.tip],
                                      cv.undo[cv.tip], cv.pcoinsTip, cv.ptokens),
                      ioFail = "flush")
    /\ UNCHANGED <<chainVars, mp, laterVars>>

\* TestBlockValidity after ConnectBlock returned r: nothing is kept
TestBlockValidityEnd(c, b, r) ==
    [c EXCEPT
       !.nOps = @ + 1,
       !.pre = [view |-> c.pcoinsTip, tokens |-> c.ptokens, tip |-> c.tip, st |-> c.index[b]],
       !.last = [op |-> "check", block |-> b, result |-> r.result, reject |-> r.reject,
                 view |-> r.view, tokens |-> r.tokens, fOnConnect |-> FALSE,
                 fStateError |-> FALSE]]

\* TestBlockValidity(block, pindexPrev = tip): ConnectBlock with fJustCheck on
\* a scratch view and a dummy index entry
CV_TestBlockValidity(b) ==
    /\ cv.pc = "ready"
    /\ cv.nOps < MaxConnectOps
    /\ BlockTable[b].hashPrevBlock = cv.tip
    /\ RepeatsCoinbase(b) => ~cv.nBIP34Enabled
    /\ cv' = IF cv.hashBestBlock # BlockTable[b].hashPrevBlock THEN BestBlockAssertFails(cv)
             ELSE TestBlockValidityEnd(cv, b,
                      ConnectBlock(BlockTable[b], BlockHeight(b), {}, cv.pcoinsTip, cv.ptokens,
                                   TRUE, nScriptCheckThreads, "none"))
    /\ UNCHANGED <<chainVars, mp, laterVars>>

NextConnect ==
    \/ \E b \in BlockIds, ioFail \in IoFailures : CV_ConnectTip(b, ioFail)
    \/ \E ioFail \in {"none", "flush"} : CV_DisconnectTip(ioFail)
    \/ \E b \in BlockIds : CV_TestBlockValidity(b)

SpecConnect == InitConnect /\ [][NextConnect]_vars

\* ---------------------------------------------------------------------------
\* Properties of the coin view machine (under SpecConnect)
\* ---------------------------------------------------------------------------

\* the block of the last operation
LastBlock == BlockTable[cv.last.block]

\* the last operation was a ConnectTip
LastConnect == cv.pc # "off" /\ cv.last.op = "connect"

\* the rejections ConnectBlock issues from inside its transaction loop and
\* from the kernel lookup, before the reward is looked at
LoopRejects ==
    {"bad-cs-kernel", "bad-txns-inputs-missingorspent", "bad-txns-in-belowout",
     "bad-tx-token-inputs-amount-mismatch", "bad-blk-sigops",
     "mandatory-script-verify-flag-failed"}

\* the value of outpoint o for a transaction of block: a coin of the view the
\* block is connected on, or an output of an earlier transaction of the block
PrevValue(block, view, o) ==
    IF o \in DOMAIN view THEN view[o].out.nValue
    ELSE LET i == CHOOSE k \in 1..Len(block.vtx) : block.vtx[k].txid = o[1]
         IN  block.vtx[i].vout[o[2] + 1].nValue

RECURSIVE SumPrevValue(_, _, _)
SumPrevValue(block, view, vin) ==
    IF vin = <<>> THEN 0
    ELSE PrevValue(block, view, Head(vin)) + SumPrevValue(block, view, Tail(vin))

\* the fees of the transactions i.. of a block: inputs minus outputs of every
\* transaction that is neither coinbase nor coinstake
RECURSIVE BlockFees(_, _, _)
BlockFees(block, view, i) ==
    IF i > Len(block.vtx) THEN 0
    ELSE (IF block.vtx[i].kind = "normal"
          THEN SumPrevValue(block, view, block.vtx[i].vin) - SumValue(block.vtx[i].vout)
          ELSE 0)
         + BlockFees(block, view, i + 1)

\* what a block pays out: the coinbase outputs of a proof-of-work block, the
\* coinstake outputs less the staked inputs of a proof-of-stake block
Payout(block, view) ==
    IF block.fProofOfStake
    THEN SumValue(block.vtx[2].vout) - SumPrevValue(block, view, block.vtx[2].vin)
    ELSE SumValue(block.vtx[1].vout)

\* fees plus the fixed subsidy of the height
RewardBound(block, view, height) ==
    BlockFees(block, view, 1) + (IF height = 1 THEN 1000000000 * COIN ELSE 10 * COIN)

\* an output of block b would replace a coin that is unspent in view
Overwrites(block, view) ==
    \E i \in 1..Len(block.vtx) : \E n \in 1..Len(block.vtx[i].vout) :
        /\ ~IsUnspendable(block.vtx[i].vout[n].scriptPubKey)
        /\ <<block.vtx[i].txid, n - 1>> \in DOMAIN view

\* C1: a block is connected only if the script checks of all its inputs
\* succeeded, whatever the number of script-check threads
C1_ScriptsChecked ==
    (LastConnect /\ cv.last.result = "ok") =>
        \A i \in 2..Len(LastBlock.vtx) : LastBlock.vtx[i].scriptOk

\* C8: a ConnectTip that fails with an invalid verdict leaves the tip coin
\* view, the token state and the tip as they were, and the index entry of the
\* block gains neither HAVE_UNDO nor VALID_SCRIPTS
C8_NoPartialAcceptance ==
    (LastConnect /\ cv.last.result = "invalid") =>
        /\ cv.pcoinsTip = cv.pre.view
        /\ cv.ptokens = cv.pre.tokens
        /\ cv.tip = cv.pre.tip
        /\ cv.hashBestBlock = cv.pre.tip
        /\ \A f \in {"HAVE_UNDO", "VALID_SCRIPTS"} :
              f \in cv.index[cv.last.block] => f \in cv.pre.st

\* C8 witness: a block is rejected for its reward after its transactions
\* were applied to the overlay
C8_RejectedAfterApply ==
    /\ LastConnect
    /\ cv.last.result = "invalid"
    /\ cv.last.reject = "bad-cb-amount"
    /\ cv.last.view # cv.pre.view

\* C9 as stated: disconnecting the block that was just connected on S returns
\* DISCONNECT_OK and gives back the coin view and token state S
C9_UndoRoundTrip ==
    (cv.pc # "off" /\ cv.last.op = "disconnect" /\ cv.last.fOnConnect) =>
        /\ cv.last.result = "DISCONNECT_OK"
        /\ cv.last.view = cv.S.view
        /\ cv.last.tokens = cv.S.tokens

\* C9: disconnecting the block that was just connected on S, none of whose
\* outputs replaced an unspent coin of S, returns DISCONNECT_OK, gives back
\* the coin view and token state S, and the best block is its predecessor
C9_UndoRoundTripNoOverwrite ==
    (/\ cv.pc # "off"
     /\ cv.last.op = "disconnect"
     /\ cv.last.fOnConnect
     /\ ~Overwrites(LastBlock, cv.S.view)) =>
        /\ cv.last.result = "DISCONNECT_OK"
        /\ cv.last.view = cv.S.view
        /\ cv.last.tokens = cv.S.tokens
        /\ cv.pcoinsTip = cv.S.view
        /\ cv.ptokens = cv.S.tokens
        /\ cv.hashBestBlock = LastBlock.hashPrevBlock

\* C9 witness: a block that spent coins and moved a token was disconnected
C9_SpendingBlockUndone ==
    /\ cv.pc # "off"
    /\ cv.last.op = "disconnect"
    /\ cv.last.fOnConnect
    /\ cv.last.block \in {"Bchain", "Btoken", "Bpos"}
    /\ cv.last.result = "DISCONNECT_OK"

\* C10: a block that is connected pays out at most its fees plus the subsidy
\* (1,000,000,000 COIN at height 1, 10 COIN at any other height); a block
\* that passes the transaction loop and pays out more is rejected with
\* bad-cb-amount (proof of work) or bad-cs-amount (proof of stake); a
\* proof-of-work block that pays out no more is not rejected for its reward
C10_RewardBound ==
    (/\ cv.pc # "off"
     /\ cv.last.op \in {"connect", "check"}
     /\ cv.last.reject \notin LoopRejects) =>
        LET payout == Payout(LastBlock, cv.pre.view)
            bound  == RewardBound(LastBlock, cv.pre.view, BlockHeight(cv.last.block))
        IN  /\ cv.last.result = "ok" => payout <= bound
            /\ payout > bound =>
                  /\ cv.last.result = "invalid"
                  /\ cv.last.reject = IF LastBlock.fProofOfStake
                                      THEN "bad-cs-amount" ELSE "bad-cb-amount"
            /\ (~LastBlock.fProofOfStake /\ payout <= bound) => cv.last.result # "invalid"

\* C10 witness: the premine block was connected at height 1 and the next
\* block, paying one unit more than 10 COIN, was rejected
C10_PremineThenRejected ==
    /\ LastConnect
    /\ cv.tip = "Ppre"
    /\ cv.last.block = "P2big"
    /\ cv.last.reject = "bad-cb-amount"

\* the last operation ran ConnectBlock on a proof-of-stake block whose kernel
\* is an offline-staking coin, and the block came as far as the offline check
LastOfflineChecked ==
    /\ cv.pc # "off"
    /\ cv.last.op \in {"connect", "check"}
    /\ LastBlock.fProofOfStake
    /\ LastBlock.vtx[2].vin[1] \in DOMAIN cv.pre.view
    /\ IsOfflineStaking(cv.pre.view[LastBlock.vtx[2].vin[1]].out.scriptPubKey)
    /\ cv.last.reject \notin LoopRejects \cup {"bad-cs-amount"}

\* what the coinstake of the last block returns to the script of its kernel
\* beyond the kernel's value, and what it pays to other scripts
LastOfflineReward ==
    LET kernel == cv.pre.view[LastBlock.vtx[2].vin[1]].out
        vout   == LastBlock.vtx[2].vout
    IN  [offline |-> SumValue(SelectSeq(Tail(vout),
                                 LAMBDA o : o.scriptPubKey = kernel.scriptPubKey))
                     - kernel.nValue,
         staker  |-> SumValue(SelectSeq(Tail(vout),
                                 LAMBDA o : o.scriptPubKey # kernel.scriptPubKey))]

\* fees plus subsidy of the last block
LastReward == RewardBound(LastBlock, cv.pre.view, BlockHeight(cv.last.block))

\* C11 as stated: a block under the offline-staking check is accepted only
\* if the staking script gets at least 90% of the block reward and the
\* operator at most 10%
C11_OfflineSplit ==
    (LastOfflineChecked /\ cv.last.result = "ok") =>
        /\ 10 * LastOfflineReward.offline >= 9 * LastReward
        /\ 10 * LastOfflineReward.staker <= LastReward

\* C11: a block under the offline-staking check is accepted only if the
\* staking script gets at least 90% of the block reward rounded down to a
\* whole unit and the operator at most 10% of it; a block that returns less
\* is rejected with bad-offline-stake, one that returns enough and pays the
\* operator more with bad-offline-stake-greed
C11_OfflineSplitRoundedDown ==
    LastOfflineChecked =>
        LET offline == LastOfflineReward.offline
            staker  == LastOfflineReward.staker
            low     == (9 * LastReward) \div 10
            high    == LastReward \div 10
        IN  /\ cv.last.result = "ok" => (offline >= low /\ 10 * staker <= LastReward)
            /\ offline < low =>
                  (cv.last.result = "invalid" /\ cv.last.reject = "bad-offline-stake")
            /\ (offline >= low /\ staker > high) =>
                  (cv.last.result = "invalid" /\ cv.last.reject = "bad-offline-stake-greed")

\* C11 witness: a block with a fee in it passed the offline check with the
\* staking script getting less than nine tenths of the reward
C11_AcceptedBelowNineTenths ==
    /\ LastOfflineChecked
    /\ cv.last.op = "connect"
    /\ cv.last.result = "ok"
    /\ 10 * LastOfflineReward.offline < 9 * LastReward

\* ---------------------------------------------------------------------------
\* The mempool across submissions and reorganisations:
\* AcceptToMemoryPool / DisconnectTip / ConnectTip / UpdateMempoolForReorg
\* ---------------------------------------------------------------------------

\* the disconnect pool holds at most MAX_DISCONNECTED_TX_POOL_SIZE * 1000
\* bytes; sizes are counted in units of 1000 bytes here
MAX_DISCONNECTED_TX_POOL_SIZE == 12

\* -maxmempool, in the same units
nMaxMempool == 6

\* operations in one run of the mempool
MaxPoolOps == 3

\* a coinbase output can be spent this many blocks after its own
COINBASE_MATURITY == 2

\* ::minRelayTxFee, per unit of size
minRelayTxFee == 1

\* height of the block the branches of the catalogue start from
PoolRootHeight == BlockHeight("S5")

\* the transactions of the mempool catalogue: a chain a <- b <- c, a rival a2
\* of a, a transaction f without fee, one (m) whose input nobody has, one (e)
\* that spends the coinbase of X1, one (n) that is not final yet, and the
\* coinbases and the coinstake of the blocks
PoolTxTable ==
    [a    |-> Tx("a", "normal", << <<"g", 0>> >>, <<TxOut(8 * COIN, "A", 0)>>, TRUE, 1),
     b    |-> Tx("b", "normal", << <<"a", 0>> >>, <<TxOut(7 * COIN, "A", 0)>>, TRUE, 1),
     c    |-> Tx("c", "normal", << <<"b", 0>> >>, <<TxOut(6 * COIN, "A", 0)>>, TRUE, 1),
     a2   |-> Tx("a2", "normal", << <<"g", 0>> >>, <<TxOut(5 * COIN, "A", 0)>>, TRUE, 1),
     f    |-> Tx("f", "normal", << <<"g", 1>> >>, <<TxOut(10 * COIN, "A", 0)>>, TRUE, 1),
     m    |-> Tx("m", "normal", << <<"x", 0>> >>, <<TxOut(1 * COIN, "A", 0)>>, TRUE, 1),
     e    |-> Tx("e", "normal", << <<"cbX1", 0>> >>, <<TxOut(9 * COIN, "A", 0)>>, TRUE, 1),
     n    |-> Tx("n", "normal", << <<"g", 1>> >>, <<TxOut(9 * COIN, "A", 0)>>, TRUE, 1),
     cbX1 |-> Tx("cbX1", "coinbase", <<>>, <<TxOut(10 * COIN, "A", 0)>>, TRUE, 1),
     cbX2 |-> Tx("cbX2", "coinbase", <<>>, <<TxOut(0, "", 0)>>, TRUE, 1),
     csX2 |-> Tx("csX2", "coinstake", << <<"g", 2>> >>,
                 <<TxOut(0, "", 0), TxOut(20 * COIN, "A", 0)>>, TRUE, 1),
     cbY1 |-> Tx("cbY1", "coinbase", <<>>, <<TxOut(10 * COIN, "A", 0)>>, TRUE, 1),
     cbY2 |-> Tx("cbY2", "coinbase", <<>>, <<TxOut(10 * COIN, "A", 0)>>, TRUE, 1),
     cbZ1 |-> Tx("cbZ1", "coinbase", <<>>, <<TxOut(10 * COIN, "A", 0)>>, TRUE, 1)]

\* transactions whose lock time keeps them out of the next block
NonFinal == {"n"}

\* transactions with a null-data output that freezes a restricted token
\* globally (flag 1), and the token it names
GlobalFreezeTable == [a2 |-> "$T", f |-> "$T"]

NoToken == ""

GlobalFreezeOf(txid) ==
    IF txid \in DOMAIN GlobalFreezeTable THEN GlobalFreezeTable[txid] ELSE NoToken

\* transactions that arrive loose
SubmitChoices == {"a", "b", "c", "a2", "f", "m", "e", "n"}

\* the blocks of the catalogue: the branch X1 <- X2 (X2 is proof-of-stake)
\* and the rival branches Y1 <- Y2 and Z1, all on the root R
PoolBlockTable ==
    [X1 |-> [hashPrevBlock |-> "R", vtx |-> <<"cbX1", "a">>],
     X2 |-> [hashPrevBlock |-> "X1", vtx |-> <<"cbX2", "csX2", "b">>],
     Y1 |-> [hashPrevBlock |-> "R", vtx |-> <<"cbY1", "a2">>],
     Y2 |-> [hashPrevBlock |-> "Y1", vtx |-> <<"cbY2">>],
     Z1 |-> [hashPrevBlock |-> "R", vtx |-> <<"cbZ1", "a">>]]

PoolBlockIds == DOMAIN PoolBlockTable

\* the blocks from the root up to b, as the active chain holds them
RECURSIVE PoolBranch(_)
PoolBranch(b) ==
    IF b = "R" THEN <<>> ELSE Append(PoolBranch(PoolBlockTable[b].hashPrevBlock), b)

\* the tips a reorganisation can lead to
PoolTips == PoolBlockIds \cup {"R"}

\* the transactions of a block
BlockVtx(b) == [i \in 1..Len(PoolBlockTable[b].vtx) |-> PoolTxTable[PoolBlockTable[b].vtx[i]]]

\* the unspent coins under the root
PoolStartCoins ==
    (<<"g", 0>> :> Coin(TxOut(10 * COIN, "A", 0), 1, FALSE, FALSE)) @@
    (<<"g", 1>> :> Coin(TxOut(10 * COIN, "A", 0), 1, FALSE, FALSE)) @@
    (<<"g", 2>> :> Coin(TxOut(10 * COIN, "A", 0), 1, FALSE, FALSE))

\* ---- CTxMemPool ----

\* pool = [mapTx, mapNextTx, mapSpent, mapDeltas,
\* mapGlobalFreezingTokenTransactions]: the entries by txid, the spender of
\* every outpoint an entry spends, the spent index, the fee deltas, and the
\* pairs <<token, txid>> of the entries that freeze a token globally
EmptyPool ==
    [mapTx |-> <<>>, mapNextTx |-> <<>>, mapSpent |-> {}, mapDeltas |-> <<>>,
     mapGlobalFreezingTokenTransactions |-> {}]

Restrict(fn, S) == [x \in S \cap DOMAIN fn |-> fn[x]]

\* CTransaction::GetTotalSize, in units
GetTxSize(tx) == 1 + Len(tx.vin) + Len(tx.vout)

\* the outpoints a transaction spends
Prevouts(tx) == {tx.vin[i] : i \in 1..Len(tx.vin)}

\* CTxMemPool::exists
exists(pool, txid) == txid \in DOMAIN pool.mapTx

\* CTxMemPool::ApplyDelta
ApplyDelta(pool, txid, nFee) ==
    IF txid \in DOMAIN pool.mapDeltas THEN nFee + pool.mapDeltas[txid] ELSE nFee

\* the entries that spend an output of txid
PoolChildren(pool, txid) == {pool.mapNextTx[o] : o \in {x \in DOMAIN pool.mapNextTx : x[1] = txid}}

\* CTxMemPool::CalculateDescendants: stage grows by the children of its
\* members until nothing is added
RECURSIVE CalculateDescendants(_, _)
CalculateDescendants(pool, stage) ==
    LET more == stage \cup UNION {PoolChildren(pool, t) : t \in stage}
    IN  IF more = stage THEN stage ELSE CalculateDescendants(pool, more)

\* RemoveStaged that removes nothing
RemoveStagedNone(pool, stage) == pool

\* CTxMemPool::RemoveStaged / removeUnchecked: the entries go, with their
\* lines in mapNextTx, in the spent index and in the token maps
RemoveStaged(pool, stage) ==
    LET gone == UNION {Prevouts(pool.mapTx[t].tx) : t \in stage \cap DOMAIN pool.mapTx}
    IN  [pool EXCEPT !.mapTx = Restrict(@, DOMAIN @ \ stage),
                     !.mapNextTx = Restrict(@, {o \in DOMAIN @ : @[o] \notin stage}),
                     !.mapSpent = @ \ gone,
                     !.mapGlobalFreezingTokenTransactions = {x \in @ : x[2] \notin stage}]

\* removeRecursive that looks at the pool entry of the transaction only
removeRecursiveInPoolOnly(pool, tx) ==
    IF exists(pool, tx.txid) THEN RemoveStaged(pool, CalculateDescendants(pool, {tx.txid}))
    ELSE pool

\* CTxMemPool::removeRecursive: the entry and its descendants; when the
\* transaction is not in the pool, the entries that spend its outputs and
\* their descendants
removeRecursive(pool, tx) ==
    IF exists(pool, tx.txid) THEN RemoveStaged(pool, CalculateDescendants(pool, {tx.txid}))
    ELSE RemoveStaged(pool, CalculateDescendants(pool, PoolChildren(pool, tx.txid)))

\* removeConflicts that leaves every entry in place
removeConflictsNone(pool, tx) == pool

\* CTxMemPool::removeConflicts: entries that spend an input of tx, and their
\* descendants
removeConflicts(pool, tx) ==
    LET rivals == {pool.mapNextTx[o] : o \in Prevouts(tx) \cap DOMAIN pool.mapNextTx} \ {tx.txid}
    IN  RemoveStaged(pool, CalculateDescendants(pool, rivals))

\* CTxMemPool::removeForBlock: the transactions of the block leave the pool
\* (their descendants stay), their rivals leave with their descendants
RECURSIVE removeForBlock(_, _)
removeForBlock(pool, vtx) ==
    IF vtx = <<>> THEN pool
    ELSE removeForBlock(removeConflicts(RemoveStaged(pool, {Head(vtx).txid}), Head(vtx)),
                        Tail(vtx))

\* CTxMemPool::removeForReorg: entries that are not final any more, or one of
\* whose inputs is neither in the pool nor unspent in the view, or spend a
\* coinbase that is not mature at the next height, leave with their descendants
removeForReorg(pool, view, nMemPoolHeight) ==
    LET bad(t) ==
            \/ t \in NonFinal
            \/ \E o \in Prevouts(pool.mapTx[t].tx) :
                  /\ ~exists(pool, o[1])
                  /\ \/ ~HaveCoin(view, o)
                     \/ /\ view[o].fCoinBase
                        /\ nMemPoolHeight - view[o].nHeight < COINBASE_MATURITY
    IN  RemoveStaged(pool, CalculateDescendants(pool, {t \in DOMAIN pool.mapTx : bad(t)}))

\* CTxMemPool::DynamicMemoryUsage, as the sizes of the entries
RECURSIVE SumSizes(_, _)
SumSizes(pool, S) ==
    IF S = {} THEN 0
    ELSE LET t == CHOOSE x \in S : TRUE
         IN  GetTxSize(pool.mapTx[t].tx) + SumSizes(pool, S \ {t})

RECURSIVE SumModFees(_, _)
SumModFees(pool, S) ==
    IF S = {} THEN 0
    ELSE LET t == CHOOSE x \in S : TRUE
         IN  ApplyDelta(pool, t, pool.mapTx[t].nFee) + SumModFees(pool, S \ {t})

PoolUsage(pool) == SumSizes(pool, DOMAIN pool.mapTx)

\* CTxMemPool::TrimToSize: while the pool is over the limit, the entry with
\* the lowest fee rate of itself with its descendants leaves with them
RECURSIVE TrimToSize(_, _)
TrimToSize(pool, limit) ==
    IF PoolUsage(pool) <= limit \/ DOMAIN pool.mapTx = {} THEN pool
    ELSE LET pkg(t) == CalculateDescendants(pool, {t})
             \* fee rate of t's package below that of u's, by cross-multiplication
             below(t, u) == SumModFees(pool, pkg(t)) * SumSizes(pool, pkg(u))
                              < SumModFees(pool, pkg(u)) * SumSizes(pool, pkg(t))
             worst == CHOOSE t \in DOMAIN pool.mapTx :
                         \A u \in DOMAIN pool.mapTx : ~below(u, t)
         IN  TrimToSize(RemoveStaged(pool, pkg(worst)), limit)

\* LimitMempoolSize: no entry is old enough to expire within a run
LimitMempoolSize(pool, limit) == TrimToSize(pool, limit)

\* CCoinsViewMemPool: the coins of the tip and the outputs of the entries
ViewMemPool(view, pool) ==
    [o \in DOMAIN view \cup {x \in {<<t, i>> : t \in DOMAIN pool.mapTx, i \in 0..1} :
                                x[2] < Len(pool.mapTx[x[1]].tx.vout)} |->
        IF o[1] \in DOMAIN pool.mapTx
        THEN Coin(pool.mapTx[o[1]].tx.vout[o[2] + 1], 1000000, FALSE, FALSE)
        ELSE view[o]]

\* CTxMemPool::addUnchecked with addSpentIndex
addUnchecked(pool, tx, entry, spentIndex) ==
    [pool EXCEPT !.mapTx = (tx.txid :> entry) @@ @,
                 !.mapNextTx = [o \in Prevouts(tx) |-> tx.txid] @@ @,
                 !.mapSpent = IF spentIndex THEN @ \cup Prevouts(tx) ELSE @]

\* ---- AcceptToMemoryPool ----

\* what a call of AcceptToMemoryPool leaves: its return value, the reject
\* reason and the invalid mark of the validation state, *pfMissingInputs,
\* and the pool
AtmpResult(res, reject, fInvalid, fMissingInputs, pool) ==
    [res |-> res, reject |-> reject, fInvalid |-> fInvalid,
     fMissingInputs |-> fMissingInputs, pool |-> pool]

\* the conflict test that finds no conflict
HasMempoolConflictNever(pool, tx) == FALSE

\* the loop over tx.vin that looks each prevout up in pool.mapNextTx
HasMempoolConflict(pool, tx) == Prevouts(tx) \cap DOMAIN pool.mapNextTx # {}

\* a missing input reported as an invalid transaction
MissingInputsInvalid(pool, fHaveFlag) ==
    AtmpResult(FALSE, "bad-txns-inputs-missingorspent", TRUE, FALSE, pool)

\* an input is missing and no output of the transaction is in the coin cache:
\* the caller's flag, if there is one, is set and the state left alone
MissingInputs(pool, fHaveFlag) == AtmpResult(FALSE, "", FALSE, fHaveFlag, pool)

\* the loop of the worker over tx.vout once the entry is stored: an output
\* that freezes a token globally is refused when an entry of the pool freezes
\* the same token, and recorded otherwise
TrackTokenOutputs(pool, tx) ==
    LET token == GlobalFreezeOf(tx.txid)
    IN  IF token = NoToken THEN AtmpResult(TRUE, "", FALSE, FALSE, pool)
        ELSE IF \E x \in pool.mapGlobalFreezingTokenTransactions : x[1] = token
        THEN AtmpResult(FALSE, "bad-txns-global-freeze-already-in-mempool", TRUE, FALSE, pool)
        ELSE AtmpResult(TRUE, "", FALSE, FALSE,
                        [pool EXCEPT !.mapGlobalFreezingTokenTransactions =
                                         @ \cup {<<token, tx.txid>>}])

\* the end of the worker without a look at test_accept
AcceptStoreAlways(pool, tx, entry, bypass_limits, test_accept, spentIndex) ==
    LET added   == addUnchecked(pool, tx, entry, spentIndex)
        trimmed == IF bypass_limits THEN added ELSE LimitMempoolSize(added, nMaxMempool)
    IN  IF exists(trimmed, tx.txid)
        THEN TrackTokenOutputs(trimmed, tx)
        ELSE AtmpResult(FALSE, "mempool full", TRUE, FALSE, trimmed)

\* the end of the worker, from the test_accept return on: the entry is
\* stored with its lines in the sub-indices, unless the limits are bypassed
\* the pool is trimmed and the entry looked up again, and the token outputs
\* of the transaction are recorded
AcceptStore(pool, tx, entry, bypass_limits, test_accept, spentIndex) ==
    IF test_accept THEN AtmpResult(TRUE, "", FALSE, FALSE, pool)
    ELSE LET added   == addUnchecked(pool, tx, entry, spentIndex)
             trimmed == IF bypass_limits THEN added ELSE LimitMempoolSize(added, nMaxMempool)
         IN  IF exists(trimmed, tx.txid)
             THEN TrackTokenOutputs(trimmed, tx)
             ELSE AtmpResult(FALSE, "mempool full", TRUE, FALSE, trimmed)

\* the checks of the worker once every input has been found in the view of
\* the tip and the pool: Consensus::CheckTxInputs at the next height, the
\* scripts, and the store
AcceptWithInputs(pool, tx, view, nSpendHeight, bypass_limits, test_accept, spentIndex) ==
    IF \E o \in Prevouts(tx) : view[o].fCoinBase /\ nSpendHeight - view[o].nHeight < COINBASE_MATURITY
    THEN AtmpResult(FALSE, "bad-txns-premature-spend-of-coinbase", TRUE, FALSE, pool)
    ELSE IF CheckTxInputs(tx, view) # "ok"
    THEN AtmpResult(FALSE, CheckTxInputs(tx, view), TRUE, FALSE, pool)
    ELSE IF ~CheckInputs(tx, FALSE)
    THEN AtmpResult(FALSE, "mandatory-script-verify-flag-failed", TRUE, FALSE, pool)
    ELSE AcceptStore(pool, tx,
                     [tx |-> tx, nFee |-> TxFee(tx, view),
                      spendsCoinbase |-> \E o \in Prevouts(tx) : view[o].fCoinBase],
                     bypass_limits, test_accept, spentIndex)

\* AcceptToMemoryPoolWorker(pool, state, ptx, pfMissingInputs, ..., bypass_limits,
\* ..., test_accept) over the coins of the tip at height nHeight. fHaveFlag
\* says whether the caller passed a pfMissingInputs, fCached whether an output
\* of the transaction that is a coin of the tip is in the coin cache. Checks
\* no transaction of the catalogue can fail (CheckTransaction, witness,
\* standardness, time, version, sequence locks, tokens, sigop cost, ancestor
\* limits) are left out
AcceptToMemoryPoolWorker(pool, tx, pcoins, height, fHaveFlag, fCached, bypass_limits, test_accept, spentIndex) ==
    IF tx.kind = "coinbase" THEN AtmpResult(FALSE, "coinbase", TRUE, FALSE, pool)
    ELSE IF tx.kind = "coinstake" THEN AtmpResult(FALSE, "coinstake", TRUE, FALSE, pool)
    ELSE IF tx.txid \in NonFinal THEN AtmpResult(FALSE, "non-final", TRUE, FALSE, pool)
    ELSE IF exists(pool, tx.txid)
    THEN AtmpResult(FALSE, "txn-already-in-mempool", TRUE, FALSE, pool)
    ELSE IF HasMempoolConflict(pool, tx)
    THEN AtmpResult(FALSE, "txn-mempool-conflict", TRUE, FALSE, pool)
    ELSE IF \E o \in Prevouts(tx) : ~HaveCoin(ViewMemPool(pcoins, pool), o)
    THEN IF fCached /\ \E i \in 0..(Len(tx.vout) - 1) : HaveCoin(pcoins, <<tx.txid, i>>)
         THEN AtmpResult(FALSE, "txn-already-known", TRUE, FALSE, pool)
         ELSE MissingInputs(pool, fHaveFlag)
    ELSE AcceptWithInputs(pool, tx, ViewMemPool(pcoins, pool), height + 1,
                          bypass_limits, test_accept, spentIndex)

\* ---- the tip operations as far as the mempool sees them ----

\* a step works on st = [chain, undo, pcoinsTip, pool, queuedTx, hAdded,
\* hDropped, hFailed]: the blocks of the active chain above the root, the
\* coins before each of them, the coins of the tip, the mempool, the
\* disconnect pool in insertion order, and for the record every transaction
\* added to the disconnect pool, dropped from it, or refused on re-admission
Reverse(seq) == [i \in 1..Len(seq) |-> seq[Len(seq) + 1 - i]]

RECURSIVE SumTxSizes(_)
SumTxSizes(txids) ==
    IF txids = <<>> THEN 0 ELSE GetTxSize(PoolTxTable[Head(txids)]) + SumTxSizes(Tail(txids))

\* the loop of DisconnectTip over block.vtx that runs from the first
\* transaction to the last
AddBlockForward(queuedTx, vtx) ==
    queuedTx \o SelectSeq(vtx, LAMBDA t : \A i \in 1..Len(queuedTx) : queuedTx[i] # t)

\* the loop of DisconnectTip over block.vtx from rbegin() to rend():
\* disconnectpool->addTransaction for every transaction of the block
AddBlockToPool(queuedTx, vtx) ==
    queuedTx \o SelectSeq(Reverse(vtx), LAMBDA t : \A i \in 1..Len(queuedTx) : queuedTx[i] # t)

\* the loop of DisconnectTip that drops the earliest entries while the
\* disconnect pool is over its bound
RECURSIVE DropEarliest(_)
DropEarliest(st) ==
    IF SumTxSizes(st.queuedTx) <= MAX_DISCONNECTED_TX_POOL_SIZE THEN st
    ELSE DropEarliest([st EXCEPT
            !.pool = removeRecursive(@, PoolTxTable[Head(st.queuedTx)]),
            !.queuedTx = Tail(@),
            !.hDropped = @ \cup {Head(st.queuedTx)}])

\* DisconnectTip(state, chainparams, &disconnectpool), the block undone
\* without error
PoolDisconnectTip(st) ==
    LET b == st.chain[Len(st.chain)]
    IN  DropEarliest([st EXCEPT
            !.pcoinsTip = st.undo[Len(st.undo)],
            !.undo = SubSeq(@, 1, Len(@) - 1),
            !.chain = SubSeq(@, 1, Len(@) - 1),
            !.queuedTx = AddBlockToPool(@, PoolBlockTable[b].vtx),
            !.hAdded = @ \o AddBlockToPool(<<>>, PoolBlockTable[b].vtx)])

\* the coins after the transactions of a block
RECURSIVE ConnectCoins(_, _, _)
ConnectCoins(view, vtx, height) ==
    IF vtx = <<>> THEN view
    ELSE ConnectCoins(UpdateCoins([view |-> view, tokens |-> StartTokens, txundo |-> <<>>],
                                  Head(vtx), height).view,
                      Tail(vtx), height)

\* ConnectTip for a block that connects: the coins move on, the block's
\* transactions and their rivals leave the mempool, the block's transactions
\* leave the disconnect pool
PoolConnectTip(st, b) ==
    [st EXCEPT
        !.pcoinsTip = ConnectCoins(@, BlockVtx(b), PoolRootHeight + Len(st.chain) + 1),
        !.undo = Append(@, st.pcoinsTip),
        !.chain = Append(@, b),
        !.pool = removeForBlock(@, BlockVtx(b)),
        !.queuedTx = SelectSeq(@, LAMBDA t : \A i \in 1..Len(PoolBlockTable[b].vtx) :
                                                PoolBlockTable[b].vtx[i] # t)]

\* the loop of UpdateMempoolForReorg over the disconnect pool, newest entry
\* first
RECURSIVE Readmit(_, _, _, _)
Readmit(st, todo, fAddToMempool, spentIndex) ==
    IF todo = <<>> THEN st
    ELSE LET tx == PoolTxTable[Head(todo)]
             r  == AcceptToMemoryPoolWorker(st.pool, tx, st.pcoinsTip,
                                            PoolRootHeight + Len(st.chain),
                                            FALSE, FALSE, TRUE, FALSE, spentIndex)
         IN  Readmit(IF ~fAddToMempool \/ tx.kind \in {"coinbase", "coinstake"} \/ ~r.res
                     THEN [st EXCEPT !.pool = removeRecursive(r.pool, tx),
                                     !.hFailed = @ \cup {tx.txid}]
                     ELSE [st EXCEPT !.pool = r.pool],
                     Tail(todo), fAddToMempool, spentIndex)

\* UpdateMempoolForReorg that empties the disconnect pool and leaves the
\* mempool as it is
UpdateMempoolForReorgSkip(st, fAddToMempool, spentIndex) == [st EXCEPT !.queuedTx = <<>>]

\* UpdateMempoolForReorg(disconnectpool, fAddToMempool);
\* UpdateTransactionsFromBlock has nothing to repair where descendants are
\* read off mapNextTx
UpdateMempoolForReorg(st, fAddToMempool, spentIndex) ==
    LET r == Readmit(st, Reverse(st.queuedTx), fAddToMempool, spentIndex)
    IN  [r EXCEPT !.queuedTx = <<>>,
                  !.pool = LimitMempoolSize(
                               removeForReorg(r.pool, r.pcoinsTip,
                                              PoolRootHeight + Len(r.chain) + 1),
                               nMaxMempool)]

\* the common start of two chains
RECURSIVE CommonPrefix(_, _)
CommonPrefix(s1, s2) ==
    IF s1 = <<>> \/ s2 = <<>> \/ Head(s1) # Head(s2) THEN <<>>
    ELSE <<Head(s1)>> \o CommonPrefix(Tail(s1), Tail(s2))

RECURSIVE DisconnectDownTo(_, _)
DisconnectDownTo(st, n) ==
    IF Len(st.chain) <= n THEN st ELSE DisconnectDownTo(PoolDisconnectTip(st), n)

RECURSIVE ConnectAll(_, _)
ConnectAll(st, blocks) ==
    IF blocks = <<>> THEN st ELSE ConnectAll(PoolConnectTip(st, Head(blocks)), Tail(blocks))

\* ActivateBestChainStep towards the tip of branch: disconnect down to the
\* fork, connect the branch, and if a block was disconnected hand the
\* disconnect pool back to the mempool
PoolActivateBestChainStep(st, branch, spentIndex) ==
    LET nFork == Len(CommonPrefix(st.chain, branch))
        down  == DisconnectDownTo(st, nFork)
        up    == ConnectAll(down, SubSeq(branch, nFork + 1, Len(branch)))
    IN  IF Len(st.chain) > nFork THEN UpdateMempoolForReorg(up, TRUE, spentIndex) ELSE up

\* ---- the specification of the mempool ----

\* the fee delta PrioritiseTransaction is called with
nFeeDelta == 3 * COIN

PrioritiseChoices == {"f"}

NoLast ==
    [op |-> "none", tx |-> "", fHaveFlag |-> FALSE, bypass_limits |-> FALSE,
     test_accept |-> FALSE, res |-> FALSE, reject |-> "", fInvalid |-> FALSE,
     fMissingInputs |-> FALSE, pre |-> EmptyPool, preCoins |-> <<>>, preChain |-> <<>>]

\* the node at the root of the catalogue with an empty mempool
InitMempool ==
    /\ InitChain
    /\ nScriptCheckThreads \in ThreadChoices
    /\ blockKind = [b \in Blocks |-> "ok"]
    /\ cv = CvIdle
    /\ LaterIdle
    /\ \E spentIndex \in BOOLEAN :
          mp = [pc |-> "on",
                nOps |-> 0,
                fSpentIndex |-> spentIndex,
                st |-> [chain |-> <<>>, undo |-> <<>>, pcoinsTip |-> PoolStartCoins,
                        pool |-> EmptyPool, queuedTx |-> <<>>,
                        hAdded |-> <<>>, hDropped |-> {}, hFailed |-> {}],
                last |-> NoLast]

\* what a finished call leaves in mp
AfterSubmit(t, fHaveFlag, bypass_limits, test_accept, r) ==
    [mp EXCEPT
        !.nOps = @ + 1,
        !.st.pool = r.pool,
        !.last = [op |-> "submit", tx |-> t, fHaveFlag |-> fHaveFlag,
                  bypass_limits |-> bypass_limits, test_accept |-> test_accept,
                  res |-> r.res, reject |-> r.reject, fInvalid |-> r.fInvalid,
                  fMissingInputs |-> r.fMissingInputs, pre |-> mp.st.pool,
                  preCoins |-> mp.st.pcoinsTip, preChain |-> mp.st.chain]]

\* AcceptToMemoryPool(mempool, state, tx, pfMissingInputs, nullptr,
\* bypass_limits, 0, test_accept). No caller asks for a test run that
\* bypasses the limits, and the coin cache holds coins of the tip only
MP_AcceptToMemoryPool(t, fHaveFlag, fCached, bypass_limits, test_accept) ==
    /\ mp.pc = "on"
    /\ mp.nOps < MaxPoolOps
    /\ ~(bypass_limits /\ test_accept)
    /\ fCached => \E i \in 0..(Len(PoolTxTable[t].vout) - 1) : HaveCoin(mp.st.pcoinsTip, <<t, i>>)
    /\ mp' = AfterSubmit(t, fHaveFlag, bypass_limits, test_accept,
                         AcceptToMemoryPoolWorker(mp.st.pool, PoolTxTable[t], mp.st.pcoinsTip,
                                                  PoolRootHeight + Len(mp.st.chain),
                                                  fHaveFlag, fCached, bypass_limits,
                                                  test_accept, mp.fSpentIndex))
    /\ UNCHANGED <<chainVars, cv, laterVars>>

AfterStep(r) ==
    [mp EXCEPT
        !.nOps = @ + 1,
        !.st = r,
        !.last = [NoLast EXCEPT !.op = "reorg", !.pre = mp.st.pool,
                                !.preCoins = mp.st.pcoinsTip, !.preChain = mp.st.chain]]

\* ActivateBestChain when the chain with the most work ends in target
MP_ActivateBestChain(target) ==
    /\ mp.pc = "on"
    /\ mp.nOps < MaxPoolOps
    /\ PoolBranch(target) # mp.st.chain
    /\ mp' = AfterStep(PoolActivateBestChainStep(
                           [mp.st EXCEPT !.hAdded = <<>>, !.hDropped = {}, !.hFailed = {}],
                           PoolBranch(target), mp.fSpentIndex))
    /\ UNCHANGED <<chainVars, cv, laterVars>>

\* CTxMemPool::PrioritiseTransaction(hash, nFeeDelta)
MP_PrioritiseTransaction(t) ==
    /\ mp.pc = "on"
    /\ mp.nOps < MaxPoolOps
    /\ t \notin DOMAIN mp.st.pool.mapDeltas
    /\ mp' = [mp EXCEPT !.nOps = @ + 1,
                        !.st.pool.mapDeltas = (t :> nFeeDelta) @@ @,
                        !.last = NoLast]
    /\ UNCHANGED <<chainVars, cv, laterVars>>

NextMempool ==
    \/ \E t \in SubmitChoices, fHaveFlag \in BOOLEAN, fCached \in BOOLEAN,
          bypass_limits \in BOOLEAN, test_accept \in BOOLEAN :
          MP_AcceptToMemoryPool(t, fHaveFlag, fCached, bypass_limits, test_accept)
    \/ \E target \in PoolTips : MP_ActivateBestChain(target)
    \/ \E t \in PrioritiseChoices : MP_PrioritiseTransaction(t)

SpecMempool == InitMempool /\ [][NextMempool]_vars

\* ---- properties of the mempool ----

PoolOn == mp.pc = "on"

\* the outpoints spent by the transactions of the active chain
ChainSpent ==
    UNION {UNION {Prevouts(PoolTxTable[PoolBlockTable[mp.st.chain[k]].vtx[i]]) :
                     i \in 1..Len(PoolBlockTable[mp.st.chain[k]].vtx)} :
              k \in 1..Len(mp.st.chain)}

\* the transactions of the catalogue that spend an output of t, directly or
\* through other transactions
RECURSIVE TxDescendants(_)
TxDescendants(S) ==
    LET more == S \cup {u \in DOMAIN PoolTxTable : \E o \in Prevouts(PoolTxTable[u]) : o[1] \in S}
    IN  IF more = S THEN S ELSE TxDescendants(more)

\* the last operation was a call of ActivateBestChain that disconnected a block
LastReorg ==
    /\ PoolOn
    /\ mp.last.op = "reorg"
    /\ Len(CommonPrefix(mp.last.preChain, mp.st.chain)) < Len(mp.last.preChain)

\* the blocks the last reorganisation disconnected, tip first
LastDisconnected ==
    Reverse(SubSeq(mp.last.preChain,
                   Len(CommonPrefix(mp.last.preChain, mp.st.chain)) + 1,
                   Len(mp.last.preChain)))

\* C12: after ActivateBestChain returns, no mempool entry spends an outpoint
\* that a transaction of the active chain spends
C12_NoEntrySpendsChainSpent ==
    (PoolOn /\ mp.last.op = "reorg") =>
        \A t \in DOMAIN mp.st.pool.mapTx : Prevouts(PoolTxTable[t]) \cap ChainSpent = {}

\* C12 witness: a reorganisation is over in which a disconnected transaction
\* was refused whose input the new chain spends, and the mempool is not empty
C12_RivalConfirmed ==
    /\ LastReorg
    /\ \E t \in mp.st.hFailed : Prevouts(PoolTxTable[t]) \cap ChainSpent # {}
    /\ DOMAIN mp.st.pool.mapTx # {}

\* the last operation was a submission of a transaction that spends an
\* outpoint which another transaction of the pool spends
LastSubmitConflicts ==
    /\ PoolOn
    /\ mp.last.op = "submit"
    /\ \E u \in DOMAIN mp.last.pre.mapTx \ {mp.last.tx} :
          Prevouts(PoolTxTable[u]) \cap Prevouts(PoolTxTable[mp.last.tx]) # {}

\* the submitted transaction is one the checks before the conflict check let
\* through
LastSubmitReachesConflictCheck ==
    /\ PoolTxTable[mp.last.tx].kind = "normal"
    /\ mp.last.tx \notin NonFinal
    /\ mp.last.tx \notin DOMAIN mp.last.pre.mapTx

BlocksTxs(blocks) ==
    UNION {{PoolBlockTable[blocks[k]].vtx[i] : i \in 1..Len(PoolBlockTable[blocks[k]].vtx)} :
              k \in 1..Len(blocks)}

\* the transactions the last reorganisation disconnected that are neither in
\* the new chain nor in the mempool: dropped from the disconnect pool or
\* refused on re-admission
LastNotReadmitted ==
    (mp.st.hDropped \cup (BlocksTxs(LastDisconnected) \ BlocksTxs(mp.st.chain)))
        \ DOMAIN mp.st.pool.mapTx

\* C14: after the re-admission that ends a reorganisation, no mempool entry
\* spends, directly or through others, an output of a disconnected
\* transaction that was dropped from the disconnect pool or refused
C14_NoOrphanLeft ==
    LastReorg =>
        \A t \in LastNotReadmitted : DOMAIN mp.st.pool.mapTx \cap TxDescendants({t}) = {}

\* C14 witness: a disconnected transaction was refused while the pool held
\* an entry that spends it through another transaction
C14_GrandchildEvicted ==
    /\ LastReorg
    /\ \E t \in LastNotReadmitted :
          \E u \in DOMAIN mp.last.pre.mapTx :
              /\ u \in TxDescendants({t})
              /\ \A o \in Prevouts(PoolTxTable[u]) : o[1] # t

\* what DisconnectTip hands to the disconnect pool for the blocks of the
\* last reorganisation, with or without coinbase and coinstake
RECURSIVE ExpectedAdded(_, _)
ExpectedAdded(blocks, kinds) ==
    IF blocks = <<>> THEN <<>>
    ELSE SelectSeq(Reverse(PoolBlockTable[Head(blocks)].vtx),
                   LAMBDA t : PoolTxTable[t].kind \in kinds)
         \o ExpectedAdded(Tail(blocks), kinds)

\* C15 as stated: the transactions of a disconnected block other than the
\* coinbase and the coinstake are added to the disconnect pool in reverse
\* block order, and the pool never holds a coinbase or coinstake
C15_PoolWithoutCoinbase ==
    LastReorg =>
        /\ mp.st.hAdded = ExpectedAdded(LastDisconnected, {"normal"})
        /\ \A i \in 1..Len(mp.st.hAdded) : PoolTxTable[mp.st.hAdded[i]].kind = "normal"

\* C15: every transaction of a disconnected block, the coinbase and the
\* coinstake included, is added to the disconnect pool in reverse block
\* order; coinbase and coinstake are passed over on re-admission, so the
\* mempool never holds either
C15_PoolInReverseOrder ==
    /\ LastReorg =>
          /\ mp.st.hAdded = ExpectedAdded(LastDisconnected, {"normal", "coinbase", "coinstake"})
          /\ \A i \in 1..Len(mp.st.hAdded) :
                PoolTxTable[mp.st.hAdded[i]].kind # "normal" =>
                    mp.st.hAdded[i] \in mp.st.hFailed \cup mp.st.hDropped
    /\ PoolOn => \A t \in DOMAIN mp.st.pool.mapTx : PoolTxTable[t].kind = "normal"

\* C15 witness: a proof-of-stake block with a coinbase, a coinstake and a
\* payment was disconnected and all three went to the disconnect pool
C15_StakeBlockDisconnected ==
    /\ LastReorg
    /\ \E i, j, k \in 1..Len(mp.st.hAdded) :
          /\ i < j /\ j < k
          /\ PoolTxTable[mp.st.hAdded[i]].kind = "normal"
          /\ PoolTxTable[mp.st.hAdded[j]].kind = "coinstake"
          /\ PoolTxTable[mp.st.hAdded[k]].kind = "coinbase"

\* the fee of the submitted transaction after the fee delta, and the least
\* fee for its size
LastModifiedFee ==
    ApplyDelta(mp.last.pre, mp.last.tx,
               TxFee(PoolTxTable[mp.last.tx], ViewMemPool(mp.last.preCoins, mp.last.pre)))

LastMinFee == minRelayTxFee * GetTxSize(PoolTxTable[mp.last.tx])

\* C16 as stated: without bypass_limits a transaction enters the mempool only
\* if its fee after the fee delta is at least the least fee for its size
C16_MinFeeEnforced ==
    (PoolOn /\ mp.last.op = "submit" /\ ~mp.last.bypass_limits /\ mp.last.res) =>
        LastModifiedFee >= LastMinFee

\* the last operation was a submission that got as far as the input lookup
\* and found an input neither among the coins of the tip nor in the pool
LastSubmitMissesInput ==
    /\ PoolOn
    /\ mp.last.op = "submit"
    /\ LastSubmitReachesConflictCheck
    /\ ~LastSubmitConflicts
    /\ \E o \in Prevouts(PoolTxTable[mp.last.tx]) :
          /\ o \notin DOMAIN mp.last.preCoins
          /\ o[1] \notin DOMAIN mp.last.pre.mapTx

C18_TestAcceptFrame ==
    (PoolOn /\ mp.last.op = "submit" /\ mp.last.test_accept) =>
        mp.st.pool = mp.last.pre

\* C18 witness: a test run on a pool with entries ended with an accepting
\* verdict
C18_TestAccepted ==
    /\ PoolOn /\ mp.last.op = "submit" /\ mp.last.test_accept
    /\ mp.last.res
    /\ DOMAIN mp.st.pool.mapTx # {}
    /\ mp.fSpentIndex

\* ---- properties of header acceptance ----

\* C19 as stated: every header in the block index other than the genesis
\* block has a work hash that meets the target claimed in its nBits
C19_ProofCheckedBeforeInsert ==
    \A b \in mapBlockIndex \ {hashGenesisBlock} : CheckProofOfWork(GetWorkHash(b), nBits(b))

\* C20: a header enters the block index only in a step that finds its
\* predecessor in the index without a FAILED flag
C20_PrevKnownAndNotFailed ==
    [][\A b \in mapBlockIndex' \ mapBlockIndex :
          /\ hashPrevBlock(b) \in mapBlockIndex
          /\ nStatus[hashPrevBlock(b)] \cap {"FAILED_VALID", "FAILED_CHILD"} = {}]_vars

\* C20 witness: one header stands in the index on a sound predecessor while
\* another is kept out, its predecessor being in the index with a FAILED flag
C20_HeaderKeptOut ==
    /\ \E b \in HeaderChoices :
          /\ b \notin mapBlockIndex
          /\ hashPrevBlock(b) \in mapBlockIndex
          /\ nStatus[hashPrevBlock(b)] \cap {"FAILED_VALID", "FAILED_CHILD"} # {}
    /\ \E b \in mapBlockIndex \ {hashGenesisBlock} : "HAVE_DATA" \notin nStatus[b]

\* ---------------------------------------------------------------------------
\* Two nodes fed the same headers and blocks in the same order (SpecFork).
\* Every block of the tree is valid, and a node runs ProcessNewBlock to the
\* end of its ActivateBestChain call before the next block arrives.  What the
\* two nodes do not share is where their CBlockIndex objects lie in memory.
\* ---------------------------------------------------------------------------

\* the orders in which an allocator may have placed the entries of the index
AddrChoices == {AddrOrder, <<"G", "B1", "A1", "B2", "A2", "B3">>}

AddrOf(order) == [b \in Blocks |-> CHOOSE i \in 1..Len(order) : order[i] = b]

\* CBlockIndexWorkComparator()(pa, pb) in node n: work, then sequence id,
\* then the address of the entry
NodeWorkLess(n, pa, pb) ==
    IF nChainWork(pa) > nChainWork(pb) THEN FALSE
    ELSE IF nChainWork(pa) < nChainWork(pb) THEN TRUE
    ELSE IF n.seq[pa] < n.seq[pb] THEN FALSE
    ELSE IF n.seq[pa] > n.seq[pb] THEN TRUE
    ELSE IF n.addr[pa] < n.addr[pb] THEN FALSE
    ELSE IF n.addr[pa] > n.addr[pb] THEN TRUE
    ELSE FALSE

\* PruneBlockIndexCandidates() in node n
NodePruneBlockIndexCandidates(n) ==
    [n EXCEPT !.cands = { x \in @ : ~NodeWorkLess(n, x, n.tip) }]

\* a node after LoadGenesisBlock and the first ActivateBestChain, its entries
\* placed in the given order
NodeStart(order) ==
    [addr  |-> AddrOf(order),
     index |-> {hashGenesisBlock},
     data  |-> {hashGenesisBlock},
     tx    |-> [b \in Blocks |-> IF b = hashGenesisBlock THEN 1 ELSE 0],
     seq   |-> [b \in Blocks |-> IF b = hashGenesisBlock THEN 1 ELSE 0],
     cands |-> {hashGenesisBlock},
     unl   |-> <<>>,
     tip   |-> hashGenesisBlock,
     next  |-> 2]

\* AcceptBlockHeader in node n: TRUE iff the header is in the index afterwards
NodeHeaderAccepted(n, b) ==
    \/ b \in n.index
    \/ /\ hashPrevBlock(b) \in n.index
       /\ ~(nHeight(n.tip) - ((nHeight(hashPrevBlock(b)) + 1) - 1) >= nMaxReorgDepth)

\* AddToBlockIndex: the new entry has sequence id 0
NodeAcceptBlockHeader(n, b) ==
    IF b \notin n.index /\ NodeHeaderAccepted(n, b)
    THEN [n EXCEPT !.index = @ \cup {b}, !.seq[b] = 0]
    ELSE n

\* the queue loop of ReceivedBlockTransactions in node n
RECURSIVE NodeConnectQueue(_, _)
NodeConnectQueue(n, queue) ==
    IF queue = <<>> THEN n
    ELSE LET pindex == Head(queue)
             prev   == hashPrevBlock(pindex)
             n1     == [n EXCEPT !.tx[pindex] = (IF prev = NoBlock THEN 0 ELSE n.tx[prev]) + 1,
                                 !.seq[pindex] = n.next,
                                 !.next = @ + 1]
             n2     == IF ~NodeWorkLess(n1, pindex, n1.tip)
                       THEN [n1 EXCEPT !.cands = @ \cup {pindex}] ELSE n1
         IN  NodeConnectQueue([n2 EXCEPT !.unl = UnlinkedWithout(@, pindex)],
                              Tail(queue) \o UnlinkedChildren(n.unl, pindex))

\* ReceivedBlockTransactions(pindexNew) in node n
NodeReceivedBlockTransactions(n, pindexNew) ==
    LET n0   == [n EXCEPT !.data = @ \cup {pindexNew}, !.tx[pindexNew] = 0]
        prev == hashPrevBlock(pindexNew)
    IN  IF n0.tx[prev] # 0
        THEN NodeConnectQueue(n0, <<pindexNew>>)
        ELSE [n0 EXCEPT !.unl = Append(@, <<prev, pindexNew>>)]

\* AcceptBlock in node n
NodeAcceptBlock(n, b, fRequested) ==
    LET n1 == NodeAcceptBlockHeader(n, b)
        fAlreadyHave == b \in n1.data
        fHasMoreWork == nChainWork(b) > nChainWork(n1.tip)
    IN  IF fAlreadyHave THEN n1
        ELSE IF ~fRequested /\ ~fHasMoreWork THEN n1
        ELSE NodeReceivedBlockTransactions(n1, b)

\* ActivateBestChain in node n, run to its return: the chain ends at the
\* last entry of the candidate set
NodeActivateBestChain(n) ==
    LET pindexMostWork == CHOOSE x \in n.cands : \A y \in n.cands \ {x} : NodeWorkLess(n, y, x)
    IN  NodePruneBlockIndexCandidates([n EXCEPT !.tip = pindexMostWork])

\* ProcessNewBlock in node n
NodeProcessNewBlock(n, b, fForceProcessing) ==
    IF ~NodeHeaderAccepted(n, b) THEN n
    ELSE NodeActivateBestChain(NodeAcceptBlock(n, b, fForceProcessing))

\* vSortedByHeight of LoadBlockIndexDB: pairs (height, entry) in ascending
\* order, entries of one height by address
RECURSIVE SortedByHeight(_, _)
SortedByHeight(S, addr) ==
    IF S = {} THEN <<>>
    ELSE LET low == CHOOSE x \in S : \A y \in S \ {x} :
                        \/ nHeight(x) < nHeight(y)
                        \/ nHeight(x) = nHeight(y) /\ addr[x] < addr[y]
         IN  <<low>> \o SortedByHeight(S \ {low}, addr)

\* the loop of LoadBlockIndexDB over vSortedByHeight
RECURSIVE LoadEntries(_, _)
LoadEntries(n, sorted) ==
    IF sorted = <<>> THEN n
    ELSE LET pindex == Head(sorted)
             prev   == hashPrevBlock(pindex)
             n1 == IF pindex \notin n.data THEN n
                   ELSE IF prev = NoBlock THEN [n EXCEPT !.tx[pindex] = 1]
                   ELSE IF n.tx[prev] # 0 THEN [n EXCEPT !.tx[pindex] = n.tx[prev] + 1]
                   ELSE [n EXCEPT !.tx[pindex] = 0, !.unl = Append(@, <<prev, pindex>>)]
             n2 == IF pindex \in n1.data /\ (n1.tx[pindex] # 0 \/ prev = NoBlock)
                   THEN [n1 EXCEPT !.cands = @ \cup {pindex}] ELSE n1
         IN  LoadEntries(n2, Tail(sorted))

\* the node started again on the block index and chain state it wrote at
\* shutdown: LoadBlockIndexDB, then LoadChainTip.  The entries are new
\* objects, with sequence id 0.
NodeLoadBlockIndex(n, order) ==
    LET n0 == [addr  |-> AddrOf(order),
               index |-> n.index,
               data  |-> n.data,
               tx    |-> [b \in Blocks |-> 0],
               seq   |-> [b \in Blocks |-> 0],
               cands |-> {},
               unl   |-> <<>>,
               tip   |-> n.tip,
               next  |-> 1]
    IN  NodePruneBlockIndexCandidates(LoadEntries(n0, SortedByHeight(n.index, n0.addr)))

InitFork ==
    /\ InitChain
    /\ nScriptCheckThreads = 0
    /\ blockKind = [b \in Blocks |-> "ok"]
    /\ cv = CvIdle
    /\ mp = MpIdle
    /\ fl = [pc |-> "off"]
    /\ pr = [pc |-> "off"]
    /\ RestIdle
    /\ \E o1, o2 \in AddrChoices :
          fk = [pc |-> "on", node |-> <<NodeStart(o1), NodeStart(o2)>>, nRestarts |-> 0]

\* the same header reaches both nodes
FK_ProcessNewBlockHeaders(b) ==
    /\ fk.pc = "on"
    /\ b \notin fk.node[1].index
    /\ fk' = [fk EXCEPT !.node = <<NodeAcceptBlockHeader(fk.node[1], b),
                                   NodeAcceptBlockHeader(fk.node[2], b)>>]
    /\ UNCHANGED <<chainVars, cv, mp, fl, pr, restVars>>

\* the same block reaches both nodes
FK_ProcessNewBlock(b, fForceProcessing) ==
    /\ fk.pc = "on"
    /\ b # hashGenesisBlock
    /\ fk' = [fk EXCEPT !.node = <<NodeProcessNewBlock(fk.node[1], b, fForceProcessing),
                                   NodeProcessNewBlock(fk.node[2], b, fForceProcessing)>>]
    /\ UNCHANGED <<chainVars, cv, mp, fl, pr, restVars>>

\* both nodes are shut down and started again
FK_Restart(o1, o2) ==
    /\ fk.pc = "on"
    /\ fk.nRestarts < MaxRestarts
    /\ fk' = [fk EXCEPT !.node = <<NodeLoadBlockIndex(fk.node[1], o1),
                                   NodeLoadBlockIndex(fk.node[2], o2)>>,
                        !.nRestarts = @ + 1]
    /\ UNCHANGED <<chainVars, cv, mp, fl, pr, restVars>>

NextFork ==
    \/ \E b \in HeaderChoices : FK_ProcessNewBlockHeaders(b)
    \/ \E b \in Blocks, f \in BOOLEAN : FK_ProcessNewBlock(b, f)
    \/ \E o1, o2 \in AddrChoices : FK_Restart(o1, o2)

SpecFork == InitFork /\ [][NextFork]_vars

\* ---- properties of the two nodes ----

\* C21 as stated: two nodes that were in the same state and have received
\* the same headers and blocks in the same order have the same active tip
C21_SameTip ==
    fk.pc = "on" => fk.node[1].tip = fk.node[2].tip

\* ---------------------------------------------------------------------------
\* Block files, block index and chain state on disk (SpecFlush).  A file
\* holds what has been written to it and, of that, what a FileCommit has
\* made durable; the block-index database and the coin and token databases
\* hold what their last batch wrote.  FlushStateToDisk runs as a sequence of
\* steps, the node can stop between any two of them.
\* ---------------------------------------------------------------------------

\* the block files blk?????.dat / rev?????.dat
FileIds == 0..MaxFile

NoFiles == [f \in FileIds |-> [written |-> {}, synced |-> {}]]

\* FileCommit on file f
FileCommit(files, f) == [files EXCEPT ![f].synced = files[f].written]

\* FlushBlockFile(fFinalize): the block file and the undo file numbered
\* nLastBlockFile are committed
FlushBlockFile(s) ==
    [s EXCEPT !.blk = FileCommit(@, s.nLastBlockFile),
              !.rev = FileCommit(@, s.nLastBlockFile)]

\* FindBlockPos for a new block (fKnown false), one block being one unit of
\* size: a full file is left, and flushed on leaving
FindBlockPos(s) ==
    IF Cardinality(s.blk[s.nLastBlockFile].written) + 1 >= MAX_BLOCKFILE_SIZE
    THEN [FlushBlockFile(s) EXCEPT !.nLastBlockFile = @ + 1]
    ELSE s

\* a block-index entry as CDiskBlockIndex stores it
DiskEntry(s, b) == [in |-> TRUE, st |-> s.st[b], nFile |-> s.nFile[b]]

NoEntry == [in |-> FALSE, st |-> {}, nFile |-> -1]

\* the header passes AcceptBlockHeader in state s
FlHeaderAccepted(s, b) ==
    \/ b \in s.node.index /\ s.st[b] \cap BLOCK_FAILED_MASK = {}
    \/ /\ b \notin s.node.index
       /\ hashPrevBlock(b) \in s.node.index
       /\ s.st[hashPrevBlock(b)] \cap BLOCK_FAILED_MASK = {}
       /\ NodeHeaderAccepted(s.node, b)

\* AddToBlockIndex on the entry's status and the dirty set
FlAddToBlockIndex(s, b) ==
    IF b \in s.node.index THEN s
    ELSE [s EXCEPT !.node = NodeAcceptBlockHeader(@, b),
                   !.st[b] = RaiseValidity({}, "VALID_TREE"),
                   !.dirty = @ \cup {b}]

\* AcceptBlock: header, then FindBlockPos, WriteBlockToDisk and
\* ReceivedBlockTransactions if the block is to be stored. When
\* WriteBlockToDisk fails, AbortNode is called and its result dropped: the
\* function goes on to ReceivedBlockTransactions
FlAcceptBlock(s, b, fRequested, fWriteFails) ==
    LET s1     == FlAddToBlockIndex(s, b)
        n2     == NodeAcceptBlock(s1.node, b, fRequested)
        stored == b \in n2.data /\ b \notin s1.node.data
        s2     == FindBlockPos(s1)
    IN  IF ~stored THEN s1
        ELSE [s2 EXCEPT !.node = n2,
                        !.blk[s2.nLastBlockFile].written = IF fWriteFails THEN @ ELSE @ \cup {b},
                        !.fRequestShutdown = @ \/ fWriteFails,
                        !.nFile[b] = s2.nLastBlockFile,
                        !.st[b] = RaiseValidity(@ \cup {"HAVE_DATA"}, "VALID_TRANSACTIONS"),
                        !.dirty = @ \cup {b}]

\* FindMostWorkChain() in state s; the result is [s, best]
RECURSIVE FlFindMostWorkChain(_)
FlFindMostWorkChain(s) ==
    IF s.node.cands = {} THEN [s |-> s, best |-> NoBlock]
    ELSE LET n         == s.node
             pindexNew == CHOOSE x \in n.cands : \A y \in n.cands \ {x} : NodeWorkLess(n, y, x)
             path      == AncestorsOf(pindexNew) \ AncestorsOf(n.tip)
             unusable  == { x \in path :
                              \/ s.st[x] \cap BLOCK_FAILED_MASK # {}
                              \/ "HAVE_DATA" \notin s.st[x] }
         IN  IF unusable = {} THEN [s |-> s, best |-> pindexNew]
             ELSE LET pindexTest   == CHOOSE x \in unusable :
                                          \A y \in unusable : nHeight(y) <= nHeight(x)
                      fFailedChain == s.st[pindexTest] \cap BLOCK_FAILED_MASK # {}
                      above        == { x \in path : nHeight(x) > nHeight(pindexTest) }
                  IN  FlFindMostWorkChain(
                        [s EXCEPT
                           !.st = IF fFailedChain
                                  THEN [x \in Blocks |-> IF x \in above
                                                         THEN s.st[x] \cup {"FAILED_CHILD"}
                                                         ELSE s.st[x]]
                                  ELSE @,
                           !.node.cands = @ \ (above \cup {pindexTest}),
                           !.node.unl = IF fFailedChain THEN @
                                        ELSE AppendUnlinked(@, Descending(above))])

\* FlushStateToDisk(FLUSH_STATE_IF_NEEDED) at the end of ConnectTip and
\* DisconnectTip: a full flush if the cache is over its limit, else nothing
FlushIfNeeded(s, fCacheCritical) ==
    IF fCacheCritical THEN [s EXCEPT !.pc = "flush", !.fDoFullFlush = TRUE] ELSE s

\* ConnectTip(b): an invalid block is marked by InvalidBlockFound; for a
\* valid one ConnectBlock writes the undo data to the undo file that goes
\* with the block's file and updates the entry
FlConnectTip(s, b, fCacheCritical) ==
    IF blockKind[b] # "ok"
    THEN [s EXCEPT !.st[b] = @ \cup {"FAILED_VALID"},
                   !.dirty = @ \cup {b},
                   !.node.cands = @ \ {b}]
    ELSE LET s1 == [s EXCEPT
                      !.rev[s.nFile[b]].written =
                          IF "HAVE_UNDO" \in s.st[b] THEN @ ELSE @ \cup {b},
                      !.st[b] = RaiseValidity(@ \cup {"HAVE_UNDO"}, "VALID_SCRIPTS"),
                      !.dirty = @ \cup {b},
                      !.node.tip = b]
         IN  FlushIfNeeded([s1 EXCEPT !.node = NodePruneBlockIndexCandidates(@)],
                           fCacheCritical)

\* DisconnectTip()
FlDisconnectTip(s, fCacheCritical) ==
    FlushIfNeeded([s EXCEPT !.node.tip = hashPrevBlock(@)], fCacheCritical)

\* WriteBatchSync of the dirty entries
WriteBatchSync(s) ==
    [s EXCEPT !.disk.index = [b \in Blocks |-> IF b \in s.dirty THEN DiskEntry(s, b) ELSE @[b]],
              !.disk.nLastBlockFile = s.nLastBlockFile,
              !.dirty = {}]

InitFlush ==
    /\ InitChain
    /\ nScriptCheckThreads = 0
    /\ blockKind \in { [b \in Blocks |-> IF b \in bad THEN "badReward" ELSE "ok"] :
                         bad \in {{}, {"B1"}} }
    /\ cv = CvIdle
    /\ mp = MpIdle
    /\ fk = [pc |-> "off"]
    /\ pr = [pc |-> "off"]
    /\ RestIdle
    /\ LET st0 == [b \in Blocks |->
                      IF b = hashGenesisBlock
                      THEN LevelsUpTo("VALID_SCRIPTS") \cup {"HAVE_DATA"} ELSE {}]
           nf0 == [b \in Blocks |-> IF b = hashGenesisBlock THEN 0 ELSE -1]
           s0  == [pc |-> "idle", fDoFullFlush |-> FALSE,
                   node |-> NodeStart(AddrOrder),
                   st |-> st0, nFile |-> nf0, dirty |-> {},
                   nLastBlockFile |-> 0,
                   blk |-> [NoFiles EXCEPT ![0] = [written |-> {hashGenesisBlock},
                                                   synced |-> {hashGenesisBlock}]],
                   rev |-> NoFiles]
       IN  fl = [pc |-> "idle", fDoFullFlush |-> FALSE, fRequestShutdown |-> FALSE,
                 node |-> s0.node, st |-> st0, nFile |-> nf0, dirty |-> {},
                 nLastBlockFile |-> 0, blk |-> s0.blk, rev |-> NoFiles,
                 disk |-> [index |-> [b \in Blocks |->
                                         IF b = hashGenesisBlock THEN DiskEntry(s0, b)
                                         ELSE NoEntry],
                           nLastBlockFile |-> 0,
                           coins |-> hashGenesisBlock,
                           tokens |-> hashGenesisBlock]]

\* ProcessNewBlockHeaders with one header
FL_ProcessNewBlockHeaders(b) ==
    /\ fl.pc = "idle"
    /\ ~fl.fRequestShutdown
    /\ b \notin fl.node.index
    /\ FlHeaderAccepted(fl, b)
    /\ fl' = FlAddToBlockIndex(fl, b)
    /\ UNCHANGED <<chainVars, cv, mp, fk, pr, restVars>>

\* ProcessNewBlock up to its call of ActivateBestChain
FL_AcceptBlock(b, fRequested, fWriteFails) ==
    /\ fl.pc = "idle"
    /\ ~fl.fRequestShutdown
    /\ b # hashGenesisBlock
    /\ FlHeaderAccepted(fl, b)
    /\ b \notin fl.node.data
    /\ fl' = FlAcceptBlock(fl, b, fRequested, fWriteFails)
    /\ UNCHANGED <<chainVars, cv, mp, fk, pr, restVars>>

\* one tip change of ActivateBestChain: the target is looked up, then the
\* tip is disconnected if it is not on the way to the target, else the next
\* block towards the target is connected; the loop of ActivateBestChain
\* ends when shutdown has been requested
FL_ActivateBestChainStep(fCacheCritical) ==
    /\ fl.pc = "idle"
    /\ ~fl.fRequestShutdown
    /\ LET f    == FlFindMostWorkChain(fl)
           s    == f.s
           tip  == s.node.tip
       IN  /\ f.best # NoBlock
           /\ f.best # tip \/ s # fl
           /\ fl' = IF f.best = tip THEN s
                    ELSE IF tip \notin AncestorsOf(f.best)
                    THEN FlDisconnectTip(s, fCacheCritical)
                    ELSE FlConnectTip(s, GetAncestor(f.best, nHeight(tip) + 1), fCacheCritical)
    /\ UNCHANGED <<chainVars, cv, mp, fk, pr, restVars>>

\* FlushStateToDisk called on its own: FLUSH_STATE_ALWAYS or a periodic
\* flush (full), or a periodic write of blocks and block index only
FL_FlushStateToDisk(fDoFullFlush) ==
    /\ fl.pc = "idle"
    /\ fl' = [fl EXCEPT !.pc = "flush", !.fDoFullFlush = fDoFullFlush]
    /\ UNCHANGED <<chainVars, cv, mp, fk, pr, restVars>>

\* validation.cpp:3316
FL_FlushBlockFile ==
    /\ fl.pc = "flush"
    /\ fl' = [FlushBlockFile(fl) EXCEPT !.pc = "filesSynced"]
    /\ UNCHANGED <<chainVars, cv, mp, fk, pr, restVars>>

\* validation.cpp:3318-3339
FL_WriteBatchSync ==
    /\ fl.pc = "filesSynced"
    /\ fl' = [WriteBatchSync(fl) EXCEPT !.pc = IF fl.fDoFullFlush THEN "indexWritten" ELSE "idle"]
    /\ UNCHANGED <<chainVars, cv, mp, fk, pr, restVars>>

\* validation.cpp:3351: pcoinsTip->Flush()
FL_CoinsFlush ==
    /\ fl.pc = "indexWritten"
    /\ fl' = [fl EXCEPT !.disk.coins = fl.node.tip, !.pc = "coinsWritten"]
    /\ UNCHANGED <<chainVars, cv, mp, fk, pr, restVars>>

\* validation.cpp:3356-3362: DumpCacheToDatabase()
FL_TokensDump ==
    /\ fl.pc = "coinsWritten"
    /\ fl' = [fl EXCEPT !.disk.tokens = fl.node.tip, !.pc = "idle"]
    /\ UNCHANGED <<chainVars, cv, mp, fk, pr, restVars>>

NextFlush ==
    \/ \E b \in HeaderChoices : FL_ProcessNewBlockHeaders(b)
    \/ \E b \in Blocks, f \in BOOLEAN, w \in BOOLEAN : FL_AcceptBlock(b, f, w)
    \/ \E c \in BOOLEAN : FL_ActivateBestChainStep(c)
    \/ \E full \in BOOLEAN : FL_FlushStateToDisk(full)
    \/ FL_FlushBlockFile
    \/ FL_WriteBatchSync
    \/ FL_CoinsFlush
    \/ FL_TokensDump

SpecFlush == InitFlush /\ [][NextFlush]_vars

\* ---- properties of the disk state ----

FlushOn == fl.pc # "off"

\* what a stop of the node at this point leaves of block b: its entry in the
\* block-index database, its data in a block file, its undo data
EntryOnDisk(b) == fl.disk.index[b].in

DataOnDisk(b) ==
    /\ EntryOnDisk(b)
    /\ "HAVE_DATA" \in fl.disk.index[b].st
    /\ b \in fl.blk[fl.disk.index[b].nFile].synced

UndoOnDisk(b) ==
    /\ EntryOnDisk(b)
    /\ "HAVE_UNDO" \in fl.disk.index[b].st
    /\ b \in fl.rev[fl.disk.index[b].nFile].synced

\* C22 as stated: at every point at which the node may stop, the best block
\* of the coin database has its index entry, its block data and its undo
\* data on disk
C22_CoinStateBacked ==
    FlushOn =>
        /\ DataOnDisk(fl.disk.coins)
        /\ fl.disk.coins # hashGenesisBlock => UndoOnDisk(fl.disk.coins)

\* C28 as stated: an entry of the block index whose persisted fields differ
\* from what the block-index database holds is in the dirty set, so that
\* the next write of the index brings the two together
C28_ChangedIsDirty ==
    FlushOn =>
        \A b \in fl.node.index :
            fl.disk.index[b] # DiskEntry(fl, b) => b \in fl.dirty

\* ---------------------------------------------------------------------------
\* Pruning of block files (SpecPrune).  The node runs with -prune; the blocks
\* of the active chain are stored in order, a new file being started
\* wherever the sizes of the blocks make FindBlockPos start one.
\* ---------------------------------------------------------------------------

\* unsigned int: a 32-bit value as two 16-bit halves
U32Half == 2^16

U32(n) == [hi |-> n \div U32Half, lo |-> n % U32Half]

\* a - b in unsigned int arithmetic (modulo 2^32)
U32Sub(a, b) ==
    LET borrow == IF a.lo < b.lo THEN 1 ELSE 0
    IN  [hi |-> (a.hi - b.hi - borrow + U32Half) % U32Half,
         lo |-> (a.lo - b.lo + U32Half) % U32Half]

U32Less(a, b) == a.hi < b.hi \/ (a.hi = b.hi /\ a.lo < b.lo)

U32Min(a, b) == IF U32Less(b, a) THEN b ELSE a

\* CBlockFileInfo: nSize counts the blocks of the file
NullFileInfo == [nSize |-> 0, nHeightLast |-> 0]

\* the sizes a batch of blocks arriving together may have
BatchChoices == {100, 188, MIN_BLOCKS_TO_KEEP}

\* heights a user may pass to pruneblockchain
ManualChoices == {1, 101, 400}

\* -prune targets, in blocks stored
TargetChoices == {0, 150, 700}

\* chainparams.PruneAfterHeight()
PruneAfterChoices == {400}

\* CalculateCurrentUsage()
RECURSIVE CalculateCurrentUsage(_)
CalculateCurrentUsage(files) ==
    IF files = <<>> THEN 0 ELSE Head(files).nSize + CalculateCurrentUsage(Tail(files))

\* PruneOneBlockFile on the file information, and the record of the deletion
PruneOneBlockFile(s, fileNumber, how) ==
    [s EXCEPT !.vinfoBlockFile[fileNumber + 1] = NullFileInfo,
              !.hPruned = @ \cup {[file |-> fileNumber,
                                   nHeightLast |-> s.vinfoBlockFile[fileNumber + 1].nHeightLast,
                                   tip |-> s.nHeight, how |-> how]}]

\* the loop of FindFilesToPruneManual from fileNumber on
RECURSIVE PruneManualFrom(_, _, _)
PruneManualFrom(s, fileNumber, nLastBlockWeCanPrune) ==
    IF ~(fileNumber < Len(s.vinfoBlockFile) - 1) THEN s
    ELSE LET info == s.vinfoBlockFile[fileNumber + 1]
         IN  IF info.nSize = 0 \/ U32Less(nLastBlockWeCanPrune, U32(info.nHeightLast))
             THEN PruneManualFrom(s, fileNumber + 1, nLastBlockWeCanPrune)
             ELSE PruneManualFrom(PruneOneBlockFile(s, fileNumber, "manual"),
                                  fileNumber + 1, nLastBlockWeCanPrune)

\* FindFilesToPruneManual(setFilesToPrune, nManualPruneHeight)
FindFilesToPruneManual(s, nManualPruneHeight) ==
    PruneManualFrom(s, 0, U32Min(U32(nManualPruneHeight),
                                 U32Sub(U32(s.nHeight), U32(MIN_BLOCKS_TO_KEEP))))

\* the loop of FindFilesToPrune from fileNumber on
RECURSIVE PruneFrom(_, _, _, _, _)
PruneFrom(s, fileNumber, nCurrentUsage, nPruneTarget, nLastBlockWeCanPrune) ==
    IF ~(fileNumber < Len(s.vinfoBlockFile) - 1) THEN s
    ELSE LET info == s.vinfoBlockFile[fileNumber + 1]
         IN  IF info.nSize = 0
             THEN PruneFrom(s, fileNumber + 1, nCurrentUsage, nPruneTarget, nLastBlockWeCanPrune)
             ELSE IF nCurrentUsage + nBuffer < nPruneTarget THEN s
             ELSE IF U32Less(nLastBlockWeCanPrune, U32(info.nHeightLast))
             THEN PruneFrom(s, fileNumber + 1, nCurrentUsage, nPruneTarget, nLastBlockWeCanPrune)
             ELSE PruneFrom(PruneOneBlockFile(s, fileNumber, "auto"), fileNumber + 1,
                            nCurrentUsage - info.nSize, nPruneTarget, nLastBlockWeCanPrune)

\* FindFilesToPrune(setFilesToPrune, nPruneAfterHeight)
FindFilesToPrune(s, nPruneAfterHeight, nPruneTarget) ==
    IF nPruneTarget = 0 THEN s
    ELSE IF s.nHeight <= nPruneAfterHeight THEN s
    ELSE IF ~(CalculateCurrentUsage(s.vinfoBlockFile) + nBuffer >= nPruneTarget) THEN s
    ELSE PruneFrom(s, 0, CalculateCurrentUsage(s.vinfoBlockFile), nPruneTarget,
                   U32Sub(U32(s.nHeight), U32(MIN_BLOCKS_TO_KEEP)))

\* the node with the genesis block in file 0
InitPrune ==
    /\ InitChain
    /\ nScriptCheckThreads = 0
    /\ blockKind = [b \in Blocks |-> "ok"]
    /\ cv = CvIdle
    /\ mp = MpIdle
    /\ fk = [pc |-> "off"]
    /\ fl = [pc |-> "off"]
    /\ RestIdle
    /\ pr = [pc |-> "on", nHeight |-> 0,
             vinfoBlockFile |-> <<[nSize |-> 1, nHeightLast |-> 0]>>,
             hPruned |-> {}]

\* n blocks are stored and connected; FindBlockPos starts a new file for
\* them (fNewFile) or goes on in file nLastBlockFile
PR_ProcessNewBlocks(n, fNewFile) ==
    /\ pr.pc = "on"
    /\ pr.nHeight + n <= MaxHeight
    /\ fNewFile => Len(pr.vinfoBlockFile) <= MaxFile
    /\ LET files == IF fNewFile THEN Append(pr.vinfoBlockFile, NullFileInfo)
                    ELSE pr.vinfoBlockFile
           last  == Len(files)
       IN  pr' = [pr EXCEPT
                     !.nHeight = @ + n,
                     !.vinfoBlockFile =
                         [files EXCEPT ![last] = [nSize |-> @.nSize + n,
                                                  nHeightLast |-> pr.nHeight + n]]]
    /\ UNCHANGED <<chainVars, cv, mp, fk, fl, restVars>>

\* PruneBlockFilesManual(nManualPruneHeight): FlushStateToDisk calls
\* FindFilesToPruneManual and unlinks the files it names
PR_PruneBlockFilesManual(nManualPruneHeight) ==
    /\ pr.pc = "on"
    /\ nManualPruneHeight > 0
    /\ pr' = FindFilesToPruneManual(pr, nManualPruneHeight)
    /\ UNCHANGED <<chainVars, cv, mp, fk, fl, restVars>>

\* FlushStateToDisk with fCheckForPruning set: FindFilesToPrune
PR_FindFilesToPrune(nPruneAfterHeight, nPruneTarget) ==
    /\ pr.pc = "on"
    /\ pr' = FindFilesToPrune(pr, nPruneAfterHeight, nPruneTarget)
    /\ UNCHANGED <<chainVars, cv, mp, fk, fl, restVars>>

NextPrune ==
    \/ \E n \in BatchChoices, f \in BOOLEAN : PR_ProcessNewBlocks(n, f)
    \/ \E h \in ManualChoices : PR_PruneBlockFilesManual(h)
    \/ \E a \in PruneAfterChoices, t \in TargetChoices : PR_FindFilesToPrune(a, t)

SpecPrune == InitPrune /\ [][NextPrune]_vars

\* ---- properties of pruning ----

\* C23 as stated: whenever a file was deleted, its highest block was more
\* than MIN_BLOCKS_TO_KEEP blocks below the tip of that moment
C23_PrunedFarBelowTip ==
    pr.pc = "on" =>
        \A p \in pr.hPruned : p.nHeightLast + MIN_BLOCKS_TO_KEEP < p.tip

\* ---------------------------------------------------------------------------
\* SpecReplay: ReplayBlocks on the coin database an interrupted flush left
\* ---------------------------------------------------------------------------
\* rp is a record:
\*   pc            "start", "rollback", "rollforward", "done", "failed"
\*   hashHeads     view->GetHeadBlocks(): <<>> or <<new tip, old tip>>
\*   coinsdb       the coins of the database
\*   hashBestBlock the best-block marker of the database
\*   ptokens       the active token cache (GetCurrentTokenCache())
\*   cache, tokensCache   the two overlays of the running call
\*   pindexOld, pindexNew, pindexFork, nHeight   its locals
\*   fRequestShutdown     the shutdown flag
\*   hStepsAfterShutdown  history: blocks undone or applied after the flag was set

\* the replayed trees: G - Ppre - P2 and S5 - Btoken, S5 - Bok - Cok
ReplayTrees == { {"G", "Ppre", "P2"}, {"S5", "Btoken", "Bok", "Cok"} }

RpPrev(b) == BlockTable[b].hashPrevBlock

\* pindex->GetAncestor(h)
RECURSIVE RpGetAncestor(_, _)
RpGetAncestor(b, h) == IF BlockHeight(b) <= h THEN b ELSE RpGetAncestor(RpPrev(b), h)

\* LastCommonAncestor(pa, pb)
RECURSIVE RpLastCommonAncestor(_, _)
RpLastCommonAncestor(pa, pb) ==
    IF BlockHeight(pa) > BlockHeight(pb) THEN RpLastCommonAncestor(RpPrev(pa), pb)
    ELSE IF BlockHeight(pb) > BlockHeight(pa) THEN RpLastCommonAncestor(pa, RpPrev(pb))
    ELSE IF pa = pb THEN pa
    ELSE RpLastCommonAncestor(RpPrev(pa), RpPrev(pb))

\* nStatus of a block that was connected once
RpConnectedStatus ==
    RaiseValidity(LevelsUpTo("VALID_TRANSACTIONS") \cup {"HAVE_DATA", "HAVE_UNDO"},
                  "VALID_SCRIPTS")

\* what ConnectBlock leaves when b is connected on the state s of its predecessor
ConnectOn(b, s) ==
    ConnectBlock(BlockTable[b], BlockHeight(b),
                 LevelsUpTo("VALID_TRANSACTIONS") \cup {"HAVE_DATA"},
                 s.view, s.tokens, FALSE, 0, "none")

\* coin view and token state of the chain that ends at b; NoBlock is the
\* state before the first flush
RECURSIVE ChainState(_)
ChainState(b) ==
    IF b \in {NoBlock, "G"} THEN [view |-> <<>>, tokens |-> [a \in TokenHolders |-> 0]]
    ELSE IF b = "S5" THEN [view |-> StartCoins, tokens |-> StartTokens]
    ELSE ConnectOn(b, ChainState(RpPrev(b)))

\* the undo record of b in its rev file
RpBlockUndo(b) == ConnectOn(b, ChainState(RpPrev(b))).blockundo

\* the outpoints on which two views differ
DiffOutpoints(v, w) ==
    { o \in DOMAIN v \cup DOMAIN w : ~(o \in DOMAIN v /\ o \in DOMAIN w /\ v[o] = w[o]) }

\* the database after BatchWrite wrote the entries T of the new view over the
\* old one and stopped
PartlyWritten(v, w, T) ==
    [o \in { x \in DOMAIN v \cup DOMAIN w :
               IF x \in T THEN x \in DOMAIN w ELSE x \in DOMAIN v } |->
        IF o \in T THEN w[o] ELSE v[o]]

\* inputs.SpendCoin(txin.prevout, nullptr, tokensCache), one input after the
\* other; a coin that is not there is left alone.  fTokensCache: tokensCache
\* is not null
RECURSIVE RollforwardSpend(_, _, _, _)
RollforwardSpend(s, vin, j, fTokensCache) ==
    IF j > Len(vin) THEN s
    ELSE RollforwardSpend(
             IF ~HaveCoin(s.view, vin[j]) THEN s
             ELSE [view |-> EraseCoin(s.view, vin[j]),
                   tokens |-> IF fTokensCache THEN TokenSpend(s.tokens, s.view[vin[j]].out)
                              ELSE s.tokens],
             vin, j + 1, fTokensCache)

\* AddCoins(inputs, tx, nHeight, hash, true, tokensCache): every addition may
\* be an overwrite
RECURSIVE RollforwardAddCoins(_, _, _, _, _)
RollforwardAddCoins(s, tx, height, n, fTokensCache) ==
    IF n > Len(tx.vout) THEN s
    ELSE LET out == tx.vout[n]
         IN  RollforwardAddCoins(
                 IF IsUnspendable(out.scriptPubKey) THEN s
                 ELSE [view |-> AddCoin(s.view, <<tx.txid, n - 1>>,
                                        Coin(out, height, tx.kind = "coinbase",
                                             tx.kind = "coinstake")),
                       tokens |-> IF fTokensCache THEN TokenAdd(s.tokens, out)
                                  ELSE s.tokens],
                 tx, height, n + 1, fTokensCache)

\* the loop of RollforwardBlock over the transactions i, i+1, ...
RECURSIVE RollforwardTxs(_, _, _, _, _)
RollforwardTxs(s, vtx, height, i, fTokensCache) ==
    IF i > Len(vtx) THEN s
    ELSE RollforwardTxs(
             RollforwardAddCoins(
                 IF vtx[i].kind = "coinbase" THEN s
                 ELSE RollforwardSpend(s, vtx[i].vin, 1, fTokensCache),
                 vtx[i], height, 1, fTokensCache),
             vtx, height, i + 1, fTokensCache)

\* RollforwardBlock(pindex, inputs, params, tokensCache = nullptr) on
\* s = [view, tokens]
RollforwardBlock(pindex, s, fTokensCache) ==
    RollforwardTxs(s, BlockTable[pindex].vtx, BlockHeight(pindex), 1, fTokensCache)

\* ReplayBlocks calls RollforwardBlock(pindex, cache, params): the token cache
\* is left at its default
ReplayRollforward(pindex, s) == RollforwardBlock(pindex, s, FALSE)

\* a database whose last flush ended, or one a flush from old to new left
\* with any part of the new entries written
InitReplay ==
    /\ InitChain
    /\ nScriptCheckThreads = 0
    /\ blockKind = [b \in Blocks |-> "ok"]
    /\ cv = CvIdle
    /\ mp = MpIdle
    /\ fk = [pc |-> "off"]
    /\ fl = [pc |-> "off"]
    /\ pr = [pc |-> "off"]
    /\ lk = [pc |-> "off"]
    /\ gv = [pc |-> "off"]
    /\ im = [pc |-> "off"]
    /\ ud = [pc |-> "off"]
    /\ \E tree \in ReplayTrees :
       \E new \in tree, old \in tree \cup {NoBlock} :
       \E fInterrupted \in BOOLEAN :
       \E T \in SUBSET DiffOutpoints(ChainState(old).view, ChainState(new).view) :
          /\ old # new
          /\ old = NoBlock => "G" \in tree
          /\ ~fInterrupted => T = {}
          /\ rp = [pc |-> "start",
                   hashHeads |-> IF fInterrupted THEN <<new, old>> ELSE <<>>,
                   coinsdb |-> PartlyWritten(ChainState(old).view, ChainState(new).view, T),
                   hashBestBlock |-> IF fInterrupted THEN NoBlock ELSE old,
                   ptokens |-> ChainState(old).tokens,
                   cache |-> <<>>, tokensCache |-> <<>>,
                   pindexOld |-> NoBlock, pindexNew |-> NoBlock, pindexFork |-> NoBlock,
                   nHeight |-> 0,
                   fRequestShutdown |-> FALSE,
                   hStepsAfterShutdown |-> 0]

\* ReplayBlocks up to its first loop
RP_ReplayBlocks ==
    /\ rp.pc = "start"
    /\ rp' = IF rp.hashHeads = <<>> THEN [rp EXCEPT !.pc = "done"]
             ELSE [rp EXCEPT
                     !.pc = "rollback",
                     !.cache = rp.coinsdb,
                     !.tokensCache = rp.ptokens,
                     !.pindexNew = rp.hashHeads[1],
                     !.pindexOld = rp.hashHeads[2],
                     !.pindexFork = IF rp.hashHeads[2] = NoBlock THEN NoBlock
                                    ELSE RpLastCommonAncestor(rp.hashHeads[2],
                                                              rp.hashHeads[1])]
    /\ UNCHANGED <<chainVars, cv, mp, fk, fl, pr, lk, gv, im, ud>>

\* the end of one pass of the rollback loop, res being what DisconnectBlock returned
RollbackEnd(s, res) ==
    IF res.result = "DISCONNECT_FAILED" THEN [s EXCEPT !.pc = "failed"]
    ELSE [s EXCEPT !.cache = res.view,
                   !.tokensCache = res.tokens,
                   !.pindexOld = RpPrev(s.pindexOld),
                   !.hStepsAfterShutdown = IF s.fRequestShutdown THEN @ + 1 ELSE @]

\* one pass of the loop "Rollback along the old branch"
RP_RollbackBlock ==
    /\ rp.pc = "rollback"
    /\ rp.pindexOld # rp.pindexFork
    /\ rp' = IF BlockHeight(rp.pindexOld) > 0
             THEN RollbackEnd(rp, DisconnectBlock(BlockTable[rp.pindexOld],
                                                  BlockHeight(rp.pindexOld),
                                                  RpConnectedStatus,
                                                  RpBlockUndo(rp.pindexOld),
                                                  rp.cache, rp.tokensCache))
             ELSE [rp EXCEPT !.pindexOld = NoBlock]
    /\ UNCHANGED <<chainVars, cv, mp, fk, fl, pr, lk, gv, im, ud>>

\* the rollback loop ends; nHeight starts above the fork
RP_EndRollback ==
    /\ rp.pc = "rollback"
    /\ rp.pindexOld = rp.pindexFork
    /\ rp' = [rp EXCEPT !.pc = "rollforward",
                        !.nHeight = IF rp.pindexFork = NoBlock THEN 1
                                    ELSE BlockHeight(rp.pindexFork) + 1]
    /\ UNCHANGED <<chainVars, cv, mp, fk, fl, pr, lk, gv, im, ud>>

\* the end of one pass of the roll-forward loop, r being the overlay
\* RollforwardBlock left
RollforwardEnd(s, r) ==
    [s EXCEPT !.cache = r.view,
              !.tokensCache = r.tokens,
              !.nHeight = @ + 1,
              !.hStepsAfterShutdown = IF s.fRequestShutdown THEN @ + 1 ELSE @]

\* one pass of the loop "Roll forward from the forking point to the new tip"
RP_RollforwardBlock ==
    /\ rp.pc = "rollforward"
    /\ rp.nHeight <= BlockHeight(rp.pindexNew)
    /\ rp' = RollforwardEnd(rp, ReplayRollforward(RpGetAncestor(rp.pindexNew, rp.nHeight),
                                                  [view |-> rp.cache,
                                                   tokens |-> rp.tokensCache]))
    /\ UNCHANGED <<chainVars, cv, mp, fk, fl, pr, lk, gv, im, ud>>

\* cache.SetBestBlock, cache.Flush(), tokensCache.Flush()
RP_Flush ==
    /\ rp.pc = "rollforward"
    /\ rp.nHeight > BlockHeight(rp.pindexNew)
    /\ rp' = [rp EXCEPT !.pc = "done",
                        !.coinsdb = rp.cache,
                        !.hashBestBlock = rp.pindexNew,
                        !.hashHeads = <<>>,
                        !.ptokens = rp.tokensCache]
    /\ UNCHANGED <<chainVars, cv, mp, fk, fl, pr, lk, gv, im, ud>>

\* StartShutdown() from another thread or a signal
RP_StartShutdown ==
    /\ rp.pc \in {"start", "rollback", "rollforward"}
    /\ ~rp.fRequestShutdown
    /\ rp' = [rp EXCEPT !.fRequestShutdown = TRUE]
    /\ UNCHANGED <<chainVars, cv, mp, fk, fl, pr, lk, gv, im, ud>>

NextReplay ==
    \/ RP_ReplayBlocks
    \/ RP_RollbackBlock
    \/ RP_EndRollback
    \/ RP_RollforwardBlock
    \/ RP_Flush
    \/ RP_StartShutdown

SpecReplay == InitReplay /\ [][NextReplay]_vars

\* ReplayBlocks has returned true after a replay between two head markers
ReplayDone == rp.pc = "done" /\ rp.pindexNew # NoBlock

\* C24: after ReplayBlocks succeeds with two differing head markers, the coin
\* view and the token state are those of the chain ending at the new tip
C24_ReplayReachesNewTip ==
    ReplayDone =>
        /\ rp.coinsdb = ChainState(rp.pindexNew).view
        /\ rp.ptokens = ChainState(rp.pindexNew).tokens

\* the coin view alone is that of the chain ending at the new tip
ReplayCoinsAtNewTip == ReplayDone => rp.coinsdb = ChainState(rp.pindexNew).view

\* C27: once the shutdown flag is set ReplayBlocks starts no further block
\* step: at most the block in progress when the flag was set is undone or
\* applied after it
C27_NoStepAfterShutdown == rp.pc # "off" => rp.hStepsAfterShutdown <= 1

\* ---------------------------------------------------------------------------
\* SpecLocks: threads running the public operations, and the locks they hold
\* ---------------------------------------------------------------------------
\* Every operation is the sequence of lock scopes and of accesses to shared
\* state its code goes through, callees inlined.  lk is a record:
\*   pc       "on"
\*   thr      thread -> [op, prog, held]: the operation it runs ("idle" for
\*            none), the instructions still to run, the locks it holds in the
\*            order it took them (a lock taken again appears again)
\*   hNested  history: <<a, b>> when a thread that held a took b, which it
\*            did not hold yet

Threads == {1, 2}

\* the three locks, in the order they may be nested
LockRank == [cs_main |-> 1, mempool_cs |-> 2, cs_LastBlockFile |-> 3]

\* the state cs_main guards
SharedState == {"blockIndex", "chain", "coins", "tokens", "governance", "mempool"}

Lock(x) == [k |-> "lock", x |-> x]

Unlock(x) == [k |-> "unlock", x |-> x]

Access(x) == [k |-> "access", x |-> x]

\* a call into CTxMemPool: the mempool takes its own lock around what it does
MempoolCall == <<Lock("mempool_cs"), Access("mempool"), Unlock("mempool_cs")>>

\* NotifyHeaderTip reads pindexBestHeader
NotifyHeaderTipOps == <<Lock("cs_main"), Access("blockIndex"), Unlock("cs_main")>>

\* CheckBlockIndex
CheckBlockIndexOps ==
    <<Lock("cs_main"), Access("blockIndex"), Access("chain"), Unlock("cs_main")>>

\* FlushBlockFile, FindBlockPos, FindUndoPos, CalculateCurrentUsage: the file
\* layout under its lock
FileLayoutOps == <<Lock("cs_LastBlockFile"), Access("files"), Unlock("cs_LastBlockFile")>>

\* PruneOneBlockFile walks mapBlockIndex under cs_LastBlockFile
PruneOneBlockFileOps ==
    <<Lock("cs_LastBlockFile"), Access("blockIndex"), Access("files"),
      Unlock("cs_LastBlockFile")>>

\* FindFilesToPrune / FindFilesToPruneManual: LOCK2(cs_main, cs_LastBlockFile)
FindFilesToPruneOps ==
    <<Lock("cs_main"), Lock("cs_LastBlockFile"), Access("chain")>>
    \o FileLayoutOps \o PruneOneBlockFileOps
    \o <<Unlock("cs_LastBlockFile"), Unlock("cs_main")>>

\* FlushStateToDisk(chainparams, state, mode, nManualPruneHeight), which
\* starts with mempool.DynamicMemoryUsage(); fPrune: the pruning branch is taken
FlushStateToDiskOps(fPrune) ==
    MempoolCall
    \o <<Lock("cs_main"), Lock("cs_LastBlockFile")>>
    \o (IF fPrune THEN FindFilesToPruneOps ELSE <<>>)
    \o <<Access("tokens"), Access("coins")>>
    \o FileLayoutOps
    \o <<Access("blockIndex"), Access("coins"), Access("tokens"),
         Unlock("cs_LastBlockFile"), Access("chain"), Unlock("cs_main")>>

\* AcceptBlock under the caller's cs_main; fCheckBlock: CheckBlock has not
\* passed on this block object yet (block.fChecked is false) and the block is
\* proof of stake, so that CanStake is asked; fPrune: fCheckForPruning
AcceptBlockOps(fCheckBlock, fPrune) ==
    <<Access("blockIndex"), Access("chain"), Access("tokens")>>
    \o (IF fCheckBlock THEN <<Access("governance")>> ELSE <<>>)
    \o FileLayoutOps
    \o <<Access("blockIndex")>>
    \o (IF fPrune THEN FlushStateToDiskOps(TRUE) ELSE <<>>)

\* ConnectTip: ConnectBlock on an overlay, the flushes, the mempool, UpdateTip
ConnectTipOps ==
    <<Access("coins"), Access("tokens"), Access("governance")>>
    \o FileLayoutOps
    \o <<Access("blockIndex")>>
    \o FlushStateToDiskOps(FALSE)
    \o MempoolCall
    \o <<Access("chain")>>

\* ActivateBestChain with one pass of its loop
ActivateBestChainOps ==
    <<Lock("cs_main"), Access("chain"), Access("blockIndex")>>
    \o ConnectTipOps
    \o MempoolCall
    \o <<Unlock("cs_main")>>
    \o CheckBlockIndexOps
    \o FlushStateToDiskOps(FALSE)

\* ProcessNewBlock; fProofOfStake: CheckBlock asks governance->CanStake
ProcessNewBlockOps(fProofOfStake) ==
    (IF fProofOfStake THEN <<Access("governance")>> ELSE <<>>)
    \o <<Lock("cs_main")>>
    \o AcceptBlockOps(FALSE, FALSE)
    \o CheckBlockIndexOps
    \o <<Unlock("cs_main")>>
    \o NotifyHeaderTipOps
    \o ActivateBestChainOps

ProcessNewBlockHeadersOps ==
    <<Lock("cs_main"), Access("blockIndex"), Access("chain"), Unlock("cs_main")>>
    \o NotifyHeaderTipOps

PreciousBlockOps ==
    <<Lock("cs_main"), Access("chain"), Access("blockIndex"), Unlock("cs_main")>>
    \o ActivateBestChainOps

\* LoadExternalBlockFile for one block of the file: the parent and the block
\* are looked up in mapBlockIndex, then AcceptBlock runs under cs_main
LoadExternalBlockFileOps(fProofOfStake) ==
    <<Access("blockIndex"), Access("blockIndex"), Lock("cs_main")>>
    \o AcceptBlockOps(fProofOfStake, TRUE)
    \o <<Unlock("cs_main")>>
    \o NotifyHeaderTipOps

\* ReplayBlocks: one block rolled back, one rolled forward
ReplayBlocksOps ==
    <<Lock("cs_main"), Access("tokens"), Access("coins"), Access("blockIndex"),
      Access("coins"), Access("tokens"), Access("governance"),
      Access("coins"), Access("tokens"), Unlock("cs_main")>>

\* LoadMempool for one transaction with a fee delta, and the deltas that follow
LoadMempoolOps ==
    MempoolCall
    \o <<Lock("cs_main"), Access("coins")>> \o MempoolCall \o MempoolCall
    \o <<Unlock("cs_main")>>
    \o MempoolCall

\* a DumpMempool that takes cs_main inside the mempool lock
DumpMempoolLockingMain ==
    <<Lock("mempool_cs"), Lock("cs_main"), Access("mempool"), Unlock("cs_main"),
      Unlock("mempool_cs")>>

\* DumpMempool: LOCK(mempool.cs) around the copy
DumpMempoolOps == <<Lock("mempool_cs"), Access("mempool"), Unlock("mempool_cs")>>

PublicOps ==
    {"ProcessNewBlock", "ProcessNewBlockHeaders", "ActivateBestChain", "PreciousBlock",
     "LoadExternalBlockFile", "FlushStateToDisk", "ReplayBlocks", "LoadMempool",
     "DumpMempool"}

\* the operations with a flag: a proof-of-stake block, a pruning flush
FlaggedOps == {"ProcessNewBlock", "LoadExternalBlockFile", "FlushStateToDisk"}

OpsOf(op, f) ==
    CASE op = "ProcessNewBlock" -> ProcessNewBlockOps(f)
      [] op = "ProcessNewBlockHeaders" -> ProcessNewBlockHeadersOps
      [] op = "ActivateBestChain" -> ActivateBestChainOps
      [] op = "PreciousBlock" -> PreciousBlockOps
      [] op = "LoadExternalBlockFile" -> LoadExternalBlockFileOps(f)
      [] op = "FlushStateToDisk" -> FlushStateToDiskOps(f)
      [] op = "ReplayBlocks" -> ReplayBlocksOps
      [] op = "LoadMempool" -> LoadMempoolOps
      [] op = "DumpMempool" -> DumpMempoolOps

ThreadIdle == [op |-> "idle", prog |-> <<>>, held |-> <<>>]

\* the locks in a held sequence
HeldSet(held) == { held[i] : i \in 1..Len(held) }

\* thread t holds lock x
Holds(t, x) == x \in HeldSet(lk.thr[t].held)

\* the instruction thread t is at
AtInstr(t, k) == lk.thr[t].prog # <<>> /\ Head(lk.thr[t].prog).k = k

InitLocks ==
    /\ InitChain
    /\ nScriptCheckThreads = 0
    /\ blockKind = [b \in Blocks |-> "ok"]
    /\ cv = CvIdle
    /\ mp = MpIdle
    /\ fk = [pc |-> "off"]
    /\ fl = [pc |-> "off"]
    /\ pr = [pc |-> "off"]
    /\ rp = [pc |-> "off"]
    /\ gv = [pc |-> "off"]
    /\ im = [pc |-> "off"]
    /\ ud = [pc |-> "off"]
    /\ lk = [pc |-> "on", thr |-> [t \in Threads |-> ThreadIdle], hNested |-> {}]

\* thread t enters a public operation
LK_Call(t, op, f) ==
    /\ lk.pc = "on"
    /\ lk.thr[t].op = "idle"
    /\ f => op \in FlaggedOps
    /\ lk' = [lk EXCEPT !.thr[t] = [op |-> op, prog |-> OpsOf(op, f), held |-> <<>>]]
    /\ UNCHANGED <<chainVars, cv, mp, fk, fl, pr, rp, gv, im, ud>>

\* LOCK(x): the lock is free or already this thread's (the locks are recursive)
LK_Lock(t) ==
    /\ lk.pc = "on"
    /\ AtInstr(t, "lock")
    /\ \A u \in Threads \ {t} : ~Holds(u, Head(lk.thr[t].prog).x)
    /\ lk' = [lk EXCEPT
                !.thr[t].prog = Tail(@),
                !.thr[t].held = Append(@, Head(lk.thr[t].prog).x),
                !.hNested = IF Holds(t, Head(lk.thr[t].prog).x) THEN @
                            ELSE @ \cup { <<h, Head(lk.thr[t].prog).x>> :
                                            h \in HeldSet(lk.thr[t].held) }]
    /\ UNCHANGED <<chainVars, cv, mp, fk, fl, pr, rp, gv, im, ud>>

\* the end of a lock's scope
LK_Unlock(t) ==
    /\ lk.pc = "on"
    /\ AtInstr(t, "unlock")
    /\ lk' = [lk EXCEPT !.thr[t].prog = Tail(@),
                        !.thr[t].held = SubSeq(@, 1, Len(@) - 1)]
    /\ UNCHANGED <<chainVars, cv, mp, fk, fl, pr, rp, gv, im, ud>>

\* the access the thread is at is over
LK_Access(t) ==
    /\ lk.pc = "on"
    /\ AtInstr(t, "access")
    /\ lk' = [lk EXCEPT !.thr[t].prog = Tail(@)]
    /\ UNCHANGED <<chainVars, cv, mp, fk, fl, pr, rp, gv, im, ud>>

\* the operation returns
LK_Return(t) ==
    /\ lk.pc = "on"
    /\ lk.thr[t].op # "idle"
    /\ lk.thr[t].prog = <<>>
    /\ lk' = [lk EXCEPT !.thr[t] = ThreadIdle]
    /\ UNCHANGED <<chainVars, cv, mp, fk, fl, pr, rp, gv, im, ud>>

NextLocks ==
    \/ \E t \in Threads, op \in PublicOps, f \in BOOLEAN : LK_Call(t, op, f)
    \/ \E t \in Threads : LK_Lock(t)
    \/ \E t \in Threads : LK_Unlock(t)
    \/ \E t \in Threads : LK_Access(t)
    \/ \E t \in Threads : LK_Return(t)

SpecLocks == InitLocks /\ [][NextLocks]_vars

\* thread t is in the middle of an access to x
Accessing(t, x) == AtInstr(t, "access") /\ Head(lk.thr[t].prog).x = x

\* the operations C25 names
CoreOps == PublicOps \ {"DumpMempool"}

\* C25: every public core operation holds cs_main during every access of the
\* block index, the active chain, the coin view, the token and governance
\* state and the mempool, so no two threads access that state at once
C25_AccessUnderCsMain ==
    lk.pc = "on" =>
        /\ \A t \in Threads, x \in SharedState :
              (lk.thr[t].op \in CoreOps /\ Accessing(t, x)) => Holds(t, "cs_main")
        /\ \A t \in Threads, u \in Threads, x \in SharedState :
              (t # u /\ lk.thr[t].op \in CoreOps /\ lk.thr[u].op \in CoreOps)
                  => ~(Accessing(t, x) /\ Accessing(u, x))

\* no two threads are inside the block index at once
NoBlockIndexRace ==
    lk.pc = "on" =>
        \A t \in Threads, u \in Threads :
            t # u => ~(Accessing(t, "blockIndex") /\ Accessing(u, "blockIndex"))

\* thread t waits for a lock thread u holds
WaitsFor(t, u) == AtInstr(t, "lock") /\ t # u /\ Holds(u, Head(lk.thr[t].prog).x)

\* C26: locks are taken in the order cs_main, mempool lock, cs_LastBlockFile:
\* a thread never takes for the first time a lock that comes before one it
\* holds, and no two threads wait for each other
C26_LockOrder ==
    lk.pc = "on" =>
        /\ \A p \in lk.hNested : LockRank[p[1]] < LockRank[p[2]]
        /\ \A t \in Threads, u \in Threads : ~(WaitsFor(t, u) /\ WaitsFor(u, t))

\* a thread holds cs_main and cs_LastBlockFile while the other waits for
\* cs_main, after the mempool lock has been taken under cs_main
C26_Witness ==
    /\ lk.pc = "on"
    /\ <<"cs_main", "mempool_cs">> \in lk.hNested
    /\ <<"cs_main", "cs_LastBlockFile">> \in lk.hNested
    /\ \E t \in Threads, u \in Threads :
          /\ Holds(t, "cs_main") /\ Holds(t, "cs_LastBlockFile")
          /\ WaitsFor(u, t)

\* ---------------------------------------------------------------------------
\* SpecGov: the governance state across block operations
\* ---------------------------------------------------------------------------
\* gv is a record:
\*   pc        "on"
\*   tip       chainActive.Tip()
\*   data      blocks with an index entry and BLOCK_HAVE_DATA
\*   failed    blocks marked BLOCK_FAILED_VALID
\*   order     the stored blocks in the order they were received (nSequenceId)
\*   governance   the global governance object: [authorized, frozen]
\*   nOps      operations so far
\*   hLast     history: the last operation

MaxGovOps == 5

\* a governance operation carried by a transaction signed with the master key
GovOp(kind, script) == [kind |-> kind, script |-> script]

\* CBlock as the governance code sees it: predecessor, proof type, the script
\* of vtx[1]->vout[1] of a proof-of-stake block, the governance operations of
\* its transactions in order, and what the checks of ConnectBlock that follow
\* the transaction loop find ("ok", "badReward")
GovBlock(prev, fProofOfStake, staker, ops, kind) ==
    [hashPrevBlock |-> prev, fProofOfStake |-> fProofOfStake, staker |-> staker,
     ops |-> ops, kind |-> kind]

\* GG is the genesis block.  Branch X authorizes staker S and then has a
\* block staked by S; branch Y never authorizes S and has a block staked by
\* S; Za authorizes S and pays too large a reward
GovBlockTable ==
    [Xa |-> GovBlock("GG", FALSE, "", <<GovOp("authorize", "S")>>, "ok"),
     Xb |-> GovBlock("Xa", TRUE, "S", <<GovOp("freeze", "F")>>, "ok"),
     Ya |-> GovBlock("GG", FALSE, "", <<>>, "ok"),
     Yb |-> GovBlock("Ya", TRUE, "S", <<>>, "ok"),
     Za |-> GovBlock("GG", FALSE, "", <<GovOp("authorize", "S")>>, "badReward")]

GovBlockIds == DOMAIN GovBlockTable

\* the block templates TestBlockValidity is given on top of the tip
GovTemplates ==
    { GovBlock(NoBlock, FALSE, "", <<>>, "ok"),
      GovBlock(NoBlock, FALSE, "", <<GovOp("authorize", "R")>>, "ok"),
      GovBlock(NoBlock, FALSE, "", <<GovOp("freeze", "R")>>, "badReward") }

GvPrev(b) == GovBlockTable[b].hashPrevBlock

RECURSIVE GvHeight(_)
GvHeight(b) == IF b = "GG" THEN 0 ELSE GvHeight(GvPrev(b)) + 1

\* the blocks from genesis (left out) up to b, in chain order
RECURSIVE GvPath(_)
GvPath(b) == IF b = "GG" THEN <<>> ELSE Append(GvPath(GvPrev(b)), b)

\* chainActive.FindFork(b) for the chain ending at tip
RECURSIVE GvFindFork(_, _)
GvFindFork(tip, b) ==
    IF GvHeight(tip) > GvHeight(b) THEN GvFindFork(GvPrev(tip), b)
    ELSE IF GvHeight(b) > GvHeight(tip) THEN GvFindFork(tip, GvPrev(b))
    ELSE IF tip = b THEN tip
    ELSE GvFindFork(GvPrev(tip), GvPrev(b))

\* the governance state of the genesis block
GovGenesis == [authorized |-> {}, frozen |-> {}]

\* CGovernance::AuthorizeScript, UnauthorizeScript, FreezeScript, UnfreezeScript
GovApply(g, op) ==
    CASE op.kind = "authorize"   -> [g EXCEPT !.authorized = @ \cup {op.script}]
      [] op.kind = "unauthorize" -> [g EXCEPT !.authorized = @ \ {op.script}]
      [] op.kind = "freeze"      -> [g EXCEPT !.frozen = @ \cup {op.script}]
      [] op.kind = "unfreeze"    -> [g EXCEPT !.frozen = @ \ {op.script}]

\* CGovernance::RevertAuthorizeScript, RevertUnauthorizeScript, ...
GovRevert(g, op) ==
    CASE op.kind = "authorize"   -> [g EXCEPT !.authorized = @ \ {op.script}]
      [] op.kind = "unauthorize" -> [g EXCEPT !.authorized = @ \cup {op.script}]
      [] op.kind = "freeze"      -> [g EXCEPT !.frozen = @ \ {op.script}]
      [] op.kind = "unfreeze"    -> [g EXCEPT !.frozen = @ \cup {op.script}]

\* CGovernance::CanStake
CanStake(g, script) == script \in g.authorized

\* the governance operations of a block applied first to last
RECURSIVE GovApplyAll(_, _)
GovApplyAll(g, ops) ==
    IF ops = <<>> THEN g ELSE GovApplyAll(GovApply(g, Head(ops)), Tail(ops))

\* the governance operations of a block reverted last to first
RECURSIVE GovRevertAll(_, _)
GovRevertAll(g, ops) ==
    IF ops = <<>> THEN g
    ELSE GovRevertAll(GovRevert(g, ops[Len(ops)]), SubSeq(ops, 1, Len(ops) - 1))

\* the governance operations of the blocks of a path applied in chain order
RECURSIVE GovReplay(_, _)
GovReplay(g, path) ==
    IF path = <<>> THEN g
    ELSE GovReplay(GovApplyAll(g, GovBlockTable[Head(path)].ops), Tail(path))

\* the governance state the chain ending at b produces
GovAt(b) == GovReplay(GovGenesis, GvPath(b))

\* CheckBlock, "Check proof-of-stake authorization": asked of the global
\* governance object; a block object that passed before is not checked again
GovCheckBlock(g, block, fChecked) ==
    fChecked \/ ~block.fProofOfStake \/ CanStake(g, block.staker)

\* ConnectBlock as far as governance goes, on the global object g: CheckBlock,
\* the transaction loop with its governance operations, then the checks
\* behind the loop; fJustCheck returns behind those
GovConnectBlock(g, block, fChecked, fJustCheck) ==
    IF ~GovCheckBlock(g, block, fChecked) THEN [ok |-> FALSE, governance |-> g]
    ELSE [ok |-> block.kind = "ok", governance |-> GovApplyAll(g, block.ops)]

\* DisconnectBlock as far as governance goes
GovDisconnectBlock(g, block) == GovRevertAll(g, block.ops)

\* the blocks FindMostWorkChain may return: stored, not failed, and so for
\* every ancestor
GvCandidates(s) ==
    { b \in s.data : \A i \in 1..Len(GvPath(b)) :
                        GvPath(b)[i] \in s.data /\ GvPath(b)[i] \notin s.failed }

\* position of b in the order of receipt
GvSeq(s, b) == CHOOSE i \in 1..Len(s.order) : s.order[i] = b

\* FindMostWorkChain: most work first, then the block received first
GvFindMostWorkChain(s) ==
    IF GvCandidates(s) = {} THEN "GG"
    ELSE CHOOSE b \in GvCandidates(s) :
            \A c \in GvCandidates(s) \ {b} :
                \/ GvHeight(c) < GvHeight(b)
                \/ GvHeight(c) = GvHeight(b) /\ GvSeq(s, b) < GvSeq(s, c)

\* the DisconnectTip loop of ActivateBestChainStep down to pindexFork
RECURSIVE GvDisconnectTo(_, _)
GvDisconnectTo(s, pindexFork) ==
    IF s.tip = pindexFork THEN s
    ELSE GvDisconnectTo([s EXCEPT !.governance = GovDisconnectBlock(@, GovBlockTable[s.tip]),
                                  !.tip = GvPrev(s.tip)],
                        pindexFork)

\* ConnectTip of b after ConnectBlock returned r: the new tip, or
\* InvalidBlockFound
GvConnectTipEnd(s, b, r) ==
    IF r.ok THEN [s EXCEPT !.tip = b, !.governance = r.governance]
    ELSE [s EXCEPT !.failed = @ \cup {b}, !.governance = r.governance]

\* the ConnectTip loop of ActivateBestChainStep over the blocks i.. of the
\* path to pindexMostWork; pblock is the block object the caller passed in,
\* on which CheckBlock has passed
RECURSIVE GvConnectPath(_, _, _, _)
GvConnectPath(s, path, i, pblock) ==
    IF i > Len(path) THEN s
    ELSE IF GvHeight(path[i]) <= GvHeight(s.tip) THEN GvConnectPath(s, path, i + 1, pblock)
    ELSE IF GvPrev(path[i]) # s.tip THEN s
    ELSE GvConnectPath(
             GvConnectTipEnd(s, path[i],
                             GovConnectBlock(s.governance, GovBlockTable[path[i]],
                                             path[i] = pblock /\ i = Len(path), FALSE)),
             path, i + 1, pblock)

\* ActivateBestChainStep
GvActivateBestChainStep(s, pindexMostWork, pblock) ==
    GvConnectPath(GvDisconnectTo(s, GvFindFork(s.tip, pindexMostWork)),
                  GvPath(pindexMostWork), 1, pblock)

\* the loop of ActivateBestChain; every pass reaches pindexMostWork or marks
\* a block failed
RECURSIVE GvActivateBestChain(_, _, _)
GvActivateBestChain(s, pblock, n) ==
    IF n = 0 \/ GvFindMostWorkChain(s) = s.tip THEN s
    ELSE GvActivateBestChain(GvActivateBestChainStep(s, GvFindMostWorkChain(s), pblock),
                             pblock, n - 1)

\* AcceptBlock; fChecked: CheckBlock has passed on this block object before
GvAcceptBlock(s, b, fChecked) ==
    IF b \in s.data \/ b \in s.failed \/ GvPrev(b) \in s.failed THEN s
    ELSE IF ~GovCheckBlock(s.governance, GovBlockTable[b], fChecked)
    THEN [s EXCEPT !.failed = @ \cup {b}]
    ELSE [s EXCEPT !.data = @ \cup {b}, !.order = Append(@, b)]

\* the first loop of VerifyDB from pindex down: CheckBlock at level 1, the
\* memory-only disconnect at level 3.  Result: [ok, governance, pindexState]
RECURSIVE GvVerifyDown(_, _, _, _, _)
GvVerifyDown(g, pindex, tipHeight, nCheckLevel, nCheckDepth) ==
    IF pindex = "GG" \/ GvHeight(pindex) < tipHeight - nCheckDepth
    THEN [ok |-> TRUE, governance |-> g, pindexState |-> pindex]
    ELSE IF nCheckLevel >= 1 /\ ~GovCheckBlock(g, GovBlockTable[pindex], FALSE)
    THEN [ok |-> FALSE, governance |-> g, pindexState |-> pindex]
    ELSE GvVerifyDown(IF nCheckLevel >= 3 THEN GovDisconnectBlock(g, GovBlockTable[pindex])
                      ELSE g,
                      GvPrev(pindex), tipHeight, nCheckLevel, nCheckDepth)

\* the second loop of VerifyDB at level 4: the blocks i.. of the active chain
\* above pindexState are connected again
RECURSIVE GvVerifyUp(_, _, _, _)
GvVerifyUp(g, path, i, stateHeight) ==
    IF i > Len(path) THEN g
    ELSE IF GvHeight(path[i]) <= stateHeight THEN GvVerifyUp(g, path, i + 1, stateHeight)
    ELSE IF ~GovConnectBlock(g, GovBlockTable[path[i]], FALSE, FALSE).ok
    THEN GovConnectBlock(g, GovBlockTable[path[i]], FALSE, FALSE).governance
    ELSE GvVerifyUp(GovConnectBlock(g, GovBlockTable[path[i]], FALSE, FALSE).governance,
                    path, i + 1, stateHeight)

\* the end of VerifyDB, d being what the first loop left
GvVerifyEnd(s, d, nCheckLevel) ==
    IF ~d.ok \/ nCheckLevel < 4 THEN d.governance
    ELSE GvVerifyUp(d.governance, GvPath(s.tip), 1,
                    IF nCheckLevel >= 3 THEN GvHeight(d.pindexState) ELSE GvHeight(s.tip))

\* CVerifyDB::VerifyDB(chainparams, coinsview, nCheckLevel, nCheckDepth): the
\* governance object it leaves
GvVerifyDB(s, nCheckLevel, nCheckDepth) ==
    IF s.tip = "GG" THEN s.governance
    ELSE GvVerifyEnd(s, GvVerifyDown(s.governance, s.tip, GvHeight(s.tip), nCheckLevel,
                                     nCheckDepth),
                     nCheckLevel)

InitGov ==
    /\ InitChain
    /\ nScriptCheckThreads = 0
    /\ blockKind = [b \in Blocks |-> "ok"]
    /\ cv = CvIdle
    /\ mp = MpIdle
    /\ fk = [pc |-> "off"]
    /\ fl = [pc |-> "off"]
    /\ pr = [pc |-> "off"]
    /\ rp = [pc |-> "off"]
    /\ lk = [pc |-> "off"]
    /\ im = [pc |-> "off"]
    /\ ud = [pc |-> "off"]
    /\ gv = [pc |-> "on", tip |-> "GG", data |-> {}, failed |-> {}, order |-> <<>>,
             governance |-> GovGenesis, nOps |-> 0, hLast |-> "none"]

\* the operation is counted and named
GvDone(s, name) == [s EXCEPT !.nOps = @ + 1, !.hLast = name]

\* ProcessNewBlock(chainparams, pblock, fForceProcessing, fNewBlock, hash):
\* CheckBlock, AcceptBlock, ActivateBestChain with the same block object
GV_ProcessNewBlock(b) ==
    /\ gv.pc = "on"
    /\ gv.nOps < MaxGovOps
    /\ GvPrev(b) \in gv.data \cup {"GG"}
    /\ gv' = GvDone(IF ~GovCheckBlock(gv.governance, GovBlockTable[b], FALSE) THEN gv
                    ELSE GvActivateBestChain(GvAcceptBlock(gv, b, TRUE), b,
                                             Cardinality(GovBlockIds) + 1),
                    "ProcessNewBlock")
    /\ UNCHANGED <<chainVars, cv, mp, fk, fl, pr, rp, lk, im, ud>>

\* LoadExternalBlockFile meets block b, whose parent is known: AcceptBlock on
\* the block object just read
GV_LoadExternalBlockFile(b) ==
    /\ gv.pc = "on"
    /\ gv.nOps < MaxGovOps
    /\ GvPrev(b) \in gv.data \cup {"GG"}
    /\ b \notin gv.data
    /\ gv' = GvDone(GvAcceptBlock(gv, b, FALSE), "LoadExternalBlockFile")
    /\ UNCHANGED <<chainVars, cv, mp, fk, fl, pr, rp, lk, im, ud>>

\* ActivateBestChain(state, chainparams) without a block
GV_ActivateBestChain ==
    /\ gv.pc = "on"
    /\ gv.nOps < MaxGovOps
    /\ gv' = GvDone(GvActivateBestChain(gv, NoBlock, Cardinality(GovBlockIds) + 1),
                    "ActivateBestChain")
    /\ UNCHANGED <<chainVars, cv, mp, fk, fl, pr, rp, lk, im, ud>>

\* TestBlockValidity(state, chainparams, block, chainActive.Tip(), ...) on a
\* block template: ConnectBlock with fJustCheck
GV_TestBlockValidity(block) ==
    /\ gv.pc = "on"
    /\ gv.nOps < MaxGovOps
    /\ gv' = GvDone([gv EXCEPT !.governance =
                        GovConnectBlock(gv.governance, block, FALSE, TRUE).governance],
                    "TestBlockValidity")
    /\ UNCHANGED <<chainVars, cv, mp, fk, fl, pr, rp, lk, im, ud>>

\* CVerifyDB::VerifyDB
GV_VerifyDB(nCheckLevel, nCheckDepth) ==
    /\ gv.pc = "on"
    /\ gv.nOps < MaxGovOps
    /\ gv' = GvDone([gv EXCEPT !.governance = GvVerifyDB(gv, nCheckLevel, nCheckDepth)],
                    "VerifyDB")
    /\ UNCHANGED <<chainVars, cv, mp, fk, fl, pr, rp, lk, im, ud>>

NextGov ==
    \/ \E b \in GovBlockIds : GV_ProcessNewBlock(b)
    \/ \E b \in GovBlockIds : GV_LoadExternalBlockFile(b)
    \/ GV_ActivateBestChain
    \/ \E block \in GovTemplates : GV_TestBlockValidity(block)
    \/ \E nCheckLevel \in {1, 3, 4}, nCheckDepth \in {1, 6} : GV_VerifyDB(nCheckLevel, nCheckDepth)

SpecGov == InitGov /\ [][NextGov]_vars

\* C29: after any sequence of operations the governance state is the result
\* of applying, in chain order, the governance operations of the blocks of
\* the active chain
C29_GovernanceIsReplay == gv.pc = "on" => gv.governance = GovAt(gv.tip)

\* b passes on its own chain: the checks behind the transaction loop pass and
\* the staker of a proof-of-stake block is authorized by the chain of its
\* predecessor
ValidOnOwnChain(b) ==
    /\ GovBlockTable[b].kind = "ok"
    /\ GovBlockTable[b].fProofOfStake =>
          CanStake(GovAt(GvPrev(b)), GovBlockTable[b].staker)

\* C30: whether a block is marked FAILED_VALID depends only on the block and
\* its ancestors: a block that passes on its own chain is never marked, and a
\* block that does not is never on the active chain
C30_FailedByOwnChain ==
    gv.pc = "on" =>
        /\ \A b \in gv.failed : ~ValidOnOwnChain(b)
        /\ \A i \in 1..Len(GvPath(gv.tip)) : ValidOnOwnChain(GvPath(gv.tip)[i])

\* ---------------------------------------------------------------------------
\* Rejection by AcceptToMemoryPool and the contents of the mempool
\* ---------------------------------------------------------------------------

\* C31: whenever AcceptToMemoryPool returns false for a transaction that was
\* not in the mempool before the call, the transaction is not in the mempool
\* after the call
C31_RejectedNotInPool ==
    (PoolOn /\ mp.last.op = "submit" /\ ~mp.last.res /\ ~exists(mp.last.pre, mp.last.tx)) =>
        ~exists(mp.st.pool, mp.last.tx)

\* ---------------------------------------------------------------------------
\* Best block of the tip coin view and the active tip
\* ---------------------------------------------------------------------------

\* C32: whenever cs_main is released, the best-block marker of the tip coin
\* view equals the hash of the active tip, also after DisconnectTip or
\* ConnectTip has returned an error
C32_BestBlockIsTip == cv.pc # "off" => cv.hashBestBlock = cv.tip

\* ---------------------------------------------------------------------------
\* HAVE_DATA and the block files
\* ---------------------------------------------------------------------------

\* C33: a block-index entry receives HAVE_DATA (and with it
\* VALID_TRANSACTIONS and possible candidate-set membership) only after the
\* block has been written successfully to a block file; if writing the block
\* fails, the entry is left without HAVE_DATA
C33_DataFlagAfterWrite ==
    FlushOn =>
        \A b \in fl.node.index :
            "HAVE_DATA" \in fl.st[b] => b \in fl.blk[fl.nFile[b]].written

\* ---------------------------------------------------------------------------
\* Depth of reorganisations
\* ---------------------------------------------------------------------------

\* the number of blocks of the chain ending in tip that are not on the chain
\* ending in b
DisconnectDepth(tip, b) == nHeight(tip) - nHeight(FindFork(tip, b))

\* C34: absent InvalidateBlock calls, the active chain is never reorganised
\* across a fork point that lies nMaxReorgDepth or more blocks below the
\* active tip, whatever the order in which the headers and the block data of
\* the competing branch arrive
C34_NoDeepReorg ==
    [][ (~hInvalidateCalled' /\ Alive') =>
            DisconnectDepth(chainTip, chainTip') < nMaxReorgDepth ]_vars

\* ---------------------------------------------------------------------------
\* Equal-work candidates
\* ---------------------------------------------------------------------------

\* C35: a block whose cumulative work equals the active tip's never replaces
\* the active tip unless PreciousBlock is called on it (no step of the two
\* nodes calls it): among equal-work candidates the one received first stays
\* the tip, also after the block index has been reloaded from disk at restart
C35_EqualWorkKeepsTip ==
    [][ fk.pc = "on" =>
            \A i \in 1..2 :
                nChainWork(fk'.node[i].tip) = nChainWork(fk.node[i].tip) =>
                    fk'.node[i].tip = fk.node[i].tip ]_vars

\* ---------------------------------------------------------------------------
\* SpecImport: LoadExternalBlockFile reading one block file
\* ---------------------------------------------------------------------------

\* longest block file read
MaxImportLen == 3

ImportBlocks == Blocks \ {hashGenesisBlock}

\* the block files: every sequence of distinct blocks, in any order
ImportFiles ==
    { f \in UNION { [1..n -> ImportBlocks] : n \in 1..MaxImportLen } :
        \A i, j \in DOMAIN f : i # j => f[i] # f[j] }

ImportOn == im.pc # "off"

\* AddToBlockIndex(block, hash): the entry is keyed by the hash handed in; an
\* existing entry under that hash is returned as it is
ImAddToBlockIndex(s, hash) ==
    IF hash \in s.index THEN s ELSE [s EXCEPT !.index = @ \cup {hash}]

\* AcceptBlockHeader(block, state, hash, chainparams, ppindex): the lookup
\* uses the hash handed in, not the header's own
ImAcceptBlockHeader(s, block, hash) ==
    IF hash # hashGenesisBlock /\ hash \in s.index
    THEN [ok |-> TRUE, pindex |-> hash, s |-> s]
    ELSE IF hash # hashGenesisBlock /\ hashPrevBlock(block) \notin s.index
    THEN [ok |-> FALSE, pindex |-> NoBlock, s |-> s]
    ELSE [ok |-> TRUE, pindex |-> hash, s |-> ImAddToBlockIndex(s, hash)]

\* AcceptBlock(pblock, state, chainparams, nullptr, fRequested = true, dbp,
\* nullptr, hash, true): all blocks of the file are valid
ImAcceptBlock(s, block, hash) ==
    LET h == ImAcceptBlockHeader(s, block, hash)
    IN  IF ~h.ok THEN [ok |-> FALSE, s |-> s]
        ELSE IF h.pindex \in h.s.data THEN [ok |-> TRUE, s |-> h.s]
        ELSE [ok |-> TRUE,
              s |-> [h.s EXCEPT !.data = @ \cup {h.pindex},
                                 !.stored = @ \cup {<<h.pindex, block>>}]]

\* the positions remembered under a parent hash, in multimap order
RECURSIVE EqualRange(_, _)
EqualRange(m, head) ==
    IF m = <<>> THEN <<>>
    ELSE IF Head(m)[1] = head THEN <<Head(m)[2]>> \o EqualRange(Tail(m), head)
    ELSE EqualRange(Tail(m), head)

RECURSIVE EraseRange(_, _)
EraseRange(m, head) ==
    IF m = <<>> THEN <<>>
    ELSE IF Head(m)[1] = head THEN EraseRange(Tail(m), head)
    ELSE <<Head(m)>> \o EraseRange(Tail(m), head)

\* the inner while loop over one range: every remembered child is read back
\* and handed to AcceptBlock together with hash, the hash of the block the
\* outer loop has just read
RECURSIVE ProcessRange(_, _, _, _)
ProcessRange(s, queue, range, hash) ==
    IF range = <<>> THEN [s |-> s, queue |-> queue]
    ELSE LET pblockrecursive == s.file[Head(range)]
             r == ImAcceptBlock(s, pblockrecursive, hash)
         IN  IF r.ok
             THEN ProcessRange([r.s EXCEPT !.nLoaded = @ + 1],
                               Append(queue, pblockrecursive), Tail(range), hash)
             ELSE ProcessRange(r.s, queue, Tail(range), hash)

\* the while (!queue.empty()) loop
RECURSIVE ProcessQueue(_, _, _)
ProcessQueue(s, queue, hash) ==
    IF queue = <<>> THEN s
    ELSE LET head == Head(queue)
             range == EqualRange(s.mapBlocksUnknownParent, head)
             erased == [s EXCEPT !.mapBlocksUnknownParent = EraseRange(@, head)]
             r == ProcessRange(erased, Tail(queue), range, hash)
         IN  ProcessQueue(r.s, r.queue, hash)

\* one iteration of the read loop of LoadExternalBlockFile
LoadExternalBlockFileStep(s) ==
    LET block == s.file[s.nPos]
        hash == block
        next == [s EXCEPT !.nPos = @ + 1]
    IN  IF hash # hashGenesisBlock /\ hashPrevBlock(block) \notin s.index
        THEN IF s.dbp
             THEN [next EXCEPT !.mapBlocksUnknownParent =
                                   Append(@, <<hashPrevBlock(block), s.nPos>>),
                               !.hRemembered = @ \cup {block}]
             ELSE next
        ELSE LET r == IF hash \notin s.index \/ hash \notin s.data
                      THEN ImAcceptBlock(next, block, hash)
                      ELSE [ok |-> FALSE, s |-> next]
                 loaded == IF r.ok THEN [r.s EXCEPT !.nLoaded = @ + 1] ELSE r.s
             IN  ProcessQueue(loaded, <<hash>>, hash)

InitImport ==
    /\ InitChain
    /\ nScriptCheckThreads = 0
    /\ blockKind = [b \in Blocks |-> "ok"]
    /\ cv = CvIdle
    /\ mp = MpIdle
    /\ fk = [pc |-> "off"]
    /\ fl = [pc |-> "off"]
    /\ pr = [pc |-> "off"]
    /\ rp = [pc |-> "off"]
    /\ lk = [pc |-> "off"]
    /\ gv = [pc |-> "off"]
    /\ ud = [pc |-> "off"]
    /\ \E f \in ImportFiles, fReindex \in BOOLEAN :
          im = [pc |-> "read", file |-> f, dbp |-> fReindex, nPos |-> 1,
                index |-> {hashGenesisBlock}, data |-> {hashGenesisBlock},
                stored |-> {}, mapBlocksUnknownParent |-> <<>>, nLoaded |-> 0,
                hRemembered |-> {}]

IM_ReadBlock ==
    /\ im.pc = "read"
    /\ im.nPos <= Len(im.file)
    /\ im' = LoadExternalBlockFileStep(im)
    /\ UNCHANGED <<chainVars, cv, mp, fk, fl, pr, rp, lk, gv, ud>>

IM_Eof ==
    /\ im.pc = "read"
    /\ im.nPos > Len(im.file)
    /\ im' = [im EXCEPT !.pc = "done"]
    /\ UNCHANGED <<chainVars, cv, mp, fk, fl, pr, rp, lk, gv, ud>>

NextImport ==
    \/ IM_ReadBlock
    \/ IM_Eof

SpecImport == InitImport /\ [][NextImport]_vars

\* C36: when an import file contains a block before its parent, the block is
\* remembered and, once its parent has been processed, the block itself is
\* accepted into the block index: it gets its own entry with HAVE_DATA, and
\* so do its own remembered descendants
C36_OutOfOrderAccepted ==
    im.pc = "done" =>
        \A i \in 1..Len(im.file) :
            (im.file[i] \in im.hRemembered /\ hashPrevBlock(im.file[i]) \in im.data)
                => im.file[i] \in im.index /\ im.file[i] \in im.data

\* ---------------------------------------------------------------------------
\* SpecQuiet: termination of ActivateBestChain when nothing arrives during a
\* call.  Headers and blocks arrive only between calls; the thread inside the
\* loop keeps running.
\* ---------------------------------------------------------------------------

NextQuiet ==
    \/ \E b \in HeaderChoices : abc.pc = "idle" /\ ProcessNewBlockHeaders(b)
    \/ \E b \in Blocks, f \in BOOLEAN : abc.pc = "idle" /\ ProcessNewBlock(b, f)
    \/ ActivateBestChain
    \/ ABC_ShutdownBreak
    \/ ABC_Iteration
    \/ ABC_Return
    \/ StartShutdown

\* the guard of ABC_Iteration
IterationEnabled == Alive /\ abc.pc = "top" /\ ~shutdownRequested

\* the iteration that ABC_Iteration would run from the current state changes
\* at least one variable
IterationChangesState ==
    LET f == IF abc.mostWork = NoBlock
             THEN FindMostWorkChain([st |-> nStatus, cands |-> setBlockIndexCandidates,
                                     unl |-> mapBlocksUnlinked])
             ELSE [st |-> nStatus, cands |-> setBlockIndexCandidates,
                   unl |-> mapBlocksUnlinked, best |-> abc.mostWork]
        s0 == [tip |-> chainTip, st |-> f.st, cands |-> f.cands,
               failed |-> g_failed_blocks, hmax |-> hMaxTipWork, bad |-> {},
               out |-> "start"]
        nothing == f.best = NoBlock \/ f.best = chainTip
        r  == IF nothing THEN s0 ELSE ActivateBestChainStep(s0, f.best, abc.pblock)
    IN  \/ nothing
        \/ r.out \in {"invalid", "abort", "crash"}
        \/ f.unl # mapBlocksUnlinked
        \/ r.tip # chainTip
        \/ r.st # nStatus
        \/ r.cands # setBlockIndexCandidates

\* weak fairness of the loop iteration, WF_vars(ABC_Iteration), written with
\* the enabling condition of the iteration as a state predicate
IterationFair ==
    \/ []<>(~(IterationEnabled /\ IterationChangesState))
    \/ []<><<ABC_Iteration>>_vars

SpecQuiet ==
    /\ Init /\ [][NextQuiet]_vars
    /\ IterationFair
    /\ WF_vars(ABC_ShutdownBreak)

\* the active tip has moved strictly up in the fork-choice order
TipMovedUp == CBlockIndexWorkComparator(chainTip, chainTip')

\* at least one entry has left the candidate set
CandidateRemoved == setBlockIndexCandidates \ setBlockIndexCandidates' # {}

\* a block that carried no failure flag has been marked as failed
BlockNewlyFailed ==
    \E b \in mapBlockIndex :
        /\ nStatus[b] \cap BLOCK_FAILED_MASK = {}
        /\ nStatus'[b] \cap BLOCK_FAILED_MASK # {}

\* the call has left its loop
LoopLeft == abc'.pc # "top"

\* C37 (as stated): each iteration of the loop of ActivateBestChain either
\* moves the active tip strictly up in the fork-choice order, or removes at
\* least one entry from the candidate set, or returns
C37_IterationProgress ==
    [][ ABC_Iteration => (TipMovedUp \/ CandidateRemoved \/ LoopLeft) ]_vars

\* C37 (amended): every call of ActivateBestChain terminates when no new
\* blocks arrive; each iteration of its loop either moves the active tip
\* strictly up in the fork-choice order, or removes at least one entry from
\* the candidate set, or marks a block as failed that was not marked before
\* (that iteration may leave the tip below where it was), or returns
C37_Terminates ==
    /\ [][ ABC_Iteration =>
             (TipMovedUp \/ CandidateRemoved \/ BlockNewlyFailed \/ LoopLeft) ]_vars
    /\ (abc.pc = "top") ~> (abc.pc # "top")

\* a call that met an invalid block on the way has returned with a tip
C37_ReturnedAfterInvalid ==
    /\ abc.pc = "retTrue"
    /\ hConnectFailed # {}
    /\ chainTip # hashGenesisBlock

\* ---------------------------------------------------------------------------
\* SpecReconsider: invalidateblock and reconsiderblock on a node whose blocks
\* are all valid
\* ---------------------------------------------------------------------------

\* operator commands in one run
MaxReconsiderOps == 2

\* the block the two commands are applied to: it may be known by its header
\* only, wait unlinked, or be part of the active chain
ReconsiderTargets == {"B2"}

InitReconsider ==
    /\ InitChainState
    /\ hInvalidation = [NoInvalidation EXCEPT !.on = TRUE]
    /\ nScriptCheckThreads = 0
    /\ blockKind = [b \in Blocks |-> "ok"]
    /\ cv = CvIdle
    /\ mp = MpIdle
    /\ LaterIdle

NextReconsider ==
    \/ \E b \in HeaderChoices : ProcessNewBlockHeaders(b)
    \/ \E b \in Blocks, f \in BOOLEAN : ProcessNewBlock(b, f)
    \/ ActivateBestChain
    \/ ABC_Iteration
    \/ ABC_Return
    \/ \E b \in ReconsiderTargets : hRpcOps < MaxReconsiderOps /\ InvalidateBlockCall(b)
    \/ \E b \in ReconsiderTargets : hRpcOps < MaxReconsiderOps /\ ResetBlockFailureFlagsCall(b)

SpecReconsider == InitReconsider /\ [][NextReconsider]_vars

\* the entry and all of its ancestors have had their transactions received
TransactionsReceivedToGenesis(b) ==
    \A a \in AncestorsOf(b) : "VALID_TRANSACTIONS" \in nStatus[a]

\* C38: for every block-index entry, nChainTx is non-zero exactly when the
\* entry and all of its ancestors have had their transactions received,
\* whatever the order in which the blocks of a branch arrive
C38_ChainTxIffReceived ==
    \A b \in mapBlockIndex :
        (nChainTx[b] # 0) <=> TransactionsReceivedToGenesis(b)

\* ---------------------------------------------------------------------------
\* InvalidateBlock followed by ResetBlockFailureFlags
\* ---------------------------------------------------------------------------

\* no header and no block has been added since the recorded InvalidateBlock
NoArrivalSinceInvalidation ==
    /\ mapBlockIndex = hInvalidation.index
    /\ { x \in Blocks : "HAVE_DATA" \in nStatus[x] } = hInvalidation.data

\* InvalidateBlock(b), then ResetBlockFailureFlags(b), then a call of
\* ActivateBestChain that has returned true, with nothing arriving in between
RoundTripDone ==
    /\ hInvalidation.pindex # NoBlock
    /\ hInvalidation.reset = hInvalidation.pindex
    /\ NoArrivalSinceInvalidation
    /\ abc.pc = "retTrue"

\* b, its ancestors and its descendants in the block index
LineOf(b) == { x \in mapBlockIndex : x \in AncestorsOf(b) \/ b \in AncestorsOf(x) }

\* C40 (as stated): InvalidateBlock(b) followed by ResetBlockFailureFlags(b)
\* and ActivateBestChain, with no headers or blocks arriving in between,
\* restores the active tip that was active before the invalidation and leaves
\* no FAILED flag on b, on its ancestors or on its descendants
C40_InvalidateResetRoundTrip ==
    RoundTripDone =>
        /\ chainTip = hInvalidation.tip
        /\ \A x \in LineOf(hInvalidation.pindex) : nStatus[x] \cap BLOCK_FAILED_MASK = {}

\* C40 (amended): the same, when before the invalidation the active tip was
\* the best entry of the candidate set (no received block was still waiting
\* for its ActivateBestChain call) and neither b nor any of its ancestors or
\* descendants carried a FAILED flag
C40_SettledRoundTrip ==
    (RoundTripDone /\ hInvalidation.fTipWasBest /\ hInvalidation.fLineClean) =>
        /\ chainTip = hInvalidation.tip
        /\ \A x \in LineOf(hInvalidation.pindex) : nStatus[x] \cap BLOCK_FAILED_MASK = {}

\* the round trip has been made on a block of the active chain, and another
\* branch was there to switch to
C40_RoundTripOnActiveBlock ==
    /\ RoundTripDone
    /\ hInvalidation.fTipWasBest
    /\ hInvalidation.fLineClean
    /\ hInvalidation.pindex \in AncestorsOf(hInvalidation.tip)
    /\ \E x \in mapBlockIndex :
          /\ x \notin LineOf(hInvalidation.pindex)
          /\ nChainTx[x] # 0

\* ---------------------------------------------------------------------------
\* SpecUndo: the HAVE_DATA and HAVE_UNDO flags of the block-index entries of a
\* pruning node, under block storage, ActivateBestChain, manual and automatic
\* pruning, and RewindBlockIndex at a restart.  Each action is one section
\* under cs_main; ActivateBestChain releases cs_main between its iterations.
\* ---------------------------------------------------------------------------

\* the blocks of the tree this specification stores
UndoBlocks == {"G", "A1", "A2", "B1"}

\* block files opened in one run
MaxUndoFiles == 3

\* sequence ids handed out
MaxUndoSeq == 5

\* restarts of the node
MaxUndoRestarts == 1

\* height of the block "G" of the tree: the genesis block itself, or a block
\* of a chain that is already longer than MIN_BLOCKS_TO_KEEP
UndoBaseChoices == {0, MIN_BLOCKS_TO_KEEP + 12}

\* heights passed to PruneBlockFilesManual
UndoManualChoices == {2, 12}

\* chainparams.PruneAfterHeight() and the -prune target of this node
nUndoPruneAfterHeight == 100

nUndoPruneTarget == 1

\* pindex->nHeight
UdHeight(s, b) == s.nBase + nHeight(b)

UdAbcIdle == [pc |-> "idle", pblock |-> NoBlock, pindexMostWork |-> NoBlock]

\* FindBlockPos(state, pos, nAddSize, nHeight, nTime) with fKnown false:
\* fFull says that the last file cannot take the block
UdFindBlockPos(s, b, fFull) ==
    LET files == IF fFull THEN Append(s.vinfoBlockFile, NullFileInfo) ELSE s.vinfoBlockFile
        nFile == Len(files) - 1
        info  == files[nFile + 1]
    IN  [nFile |-> nFile,
         files |-> [files EXCEPT ![nFile + 1] =
                       [nSize |-> info.nSize + 1,
                        nHeightLast |-> Max(info.nHeightLast, UdHeight(s, b))]]]

\* the queue loop of ReceivedBlockTransactions
RECURSIVE UdLinkQueue(_, _)
UdLinkQueue(s, queue) ==
    IF queue = {} THEN s
    ELSE LET b    == CHOOSE x \in queue : \A y \in queue : Addr(x) <= Addr(y)
             seq1 == [s.seq EXCEPT ![b] = s.nBlockSequenceId]
             kids == {c \in s.unlinked : hashPrevBlock(c) = b}
         IN  UdLinkQueue([s EXCEPT !.linked = @ \cup {b},
                                   !.seq = seq1,
                                   !.nBlockSequenceId = @ + 1,
                                   !.cands = IF ~WorkLess(seq1, b, s.tip) THEN @ \cup {b} ELSE @,
                                   !.unlinked = @ \ kids],
                         (queue \ {b}) \cup kids)

\* ReceivedBlockTransactions(block, state, pindexNew, pos, consensusParams)
UdReceivedBlockTransactions(s, b, nFile) ==
    LET s1 == [s EXCEPT !.received = @ \cup {b},
                        !.nFile[b] = nFile,
                        !.st[b] = (@ \cup {"HAVE_DATA"}) \cup
                                  (IF s.nSegwitEnabled THEN {"OPT_WITNESS"} ELSE {})]
    IN  IF hashPrevBlock(b) = NoBlock \/ hashPrevBlock(b) \in s.linked
        THEN UdLinkQueue(s1, {b})
        ELSE [s1 EXCEPT !.unlinked = @ \cup {b}]

\* AcceptBlock(pblock, state, chainparams, &pindex, fRequested, nullptr, fNewBlock, hash)
UdAcceptBlock(s, b, fRequested, fFull) ==
    LET s0 == [s EXCEPT !.index = @ \cup {b}]
        fAlreadyHave == "HAVE_DATA" \in s.st[b]
        fHasMoreWork == nChainWork(b) > nChainWork(s.tip)
    IN  IF fAlreadyHave THEN s0
        ELSE IF ~fRequested /\ (b \in s.received \/ ~fHasMoreWork) THEN s0
        ELSE UdReceivedBlockTransactions(
                 [s0 EXCEPT !.vinfoBlockFile = UdFindBlockPos(s, b, fFull).files],
                 b, UdFindBlockPos(s, b, fFull).nFile)

\* FindMostWorkChain(): the best candidate whose blocks down to the active
\* chain all have their data; candidates above missing data are set aside
RECURSIVE UdFindMostWorkChain(_)
UdFindMostWorkChain(s) ==
    IF s.cands = {} THEN [s |-> s, best |-> NoBlock]
    ELSE LET pindexNew == TopCandidate(s.cands, s.seq)
             path      == AncestorsOf(pindexNew) \ AncestorsOf(s.tip)
             missing   == {x \in path : "HAVE_DATA" \notin s.st[x]}
         IN  IF missing = {} THEN [s |-> s, best |-> pindexNew]
             ELSE LET pindexTest == CHOOSE x \in missing : \A y \in missing : nHeight(y) <= nHeight(x)
                      above == {x \in path : nHeight(x) > nHeight(pindexTest)}
                  IN  UdFindMostWorkChain([s EXCEPT !.cands = @ \ (above \cup {pindexTest}),
                                                    !.unlinked = @ \cup above])

\* PruneBlockIndexCandidates()
UdPruneBlockIndexCandidates(s) ==
    [s EXCEPT !.cands = {x \in @ : ~WorkLess(s.seq, x, s.tip)}]

\* ConnectBlock's write of the undo data and of the block's status: the undo
\* position is null exactly when the entry has no HAVE_UNDO, and the undo data
\* go to the undo file numbered pindex->nFile
UdConnectBlock(s, b) ==
    LET fUndoPosNull == "HAVE_UNDO" \notin s.st[b]
    IN  IF fUndoPosNull \/ "VALID_SCRIPTS" \notin s.st[b]
        THEN [s EXCEPT !.st[b] = (IF fUndoPosNull THEN @ \cup {"HAVE_UNDO"} ELSE @)
                                 \cup {"VALID_SCRIPTS"}]
        ELSE s

\* ConnectTip(state, chainparams, pindexNew, pblock, ...): the block is read
\* from disk unless the caller holds it in memory
UdConnectTip(s, pindexNew, pblock) ==
    IF pblock # pindexNew /\ "HAVE_DATA" \notin s.st[pindexNew]
    THEN [s EXCEPT !.out = "abort"]
    ELSE [UdConnectBlock(s, pindexNew) EXCEPT !.tip = pindexNew]

\* DisconnectTip(state, chainparams, disconnectpool): the block and its undo
\* data are read from disk
UdDisconnectTip(s) ==
    IF {"HAVE_DATA", "HAVE_UNDO"} \subseteq s.st[s.tip]
    THEN [s EXCEPT !.tip = hashPrevBlock(s.tip)]
    ELSE [s EXCEPT !.out = "error"]

\* the disconnect loop of ActivateBestChainStep
RECURSIVE UdDisconnectTo(_, _)
UdDisconnectTo(s, pindexFork) ==
    IF s.tip = pindexFork \/ s.out # "ok" THEN s
    ELSE UdDisconnectTo(UdDisconnectTip(s), pindexFork)

\* the connect loop of ActivateBestChainStep from height h on
RECURSIVE UdConnectFrom(_, _, _, _, _)
UdConnectFrom(s, h, pindexMostWork, pblock, pindexOldTip) ==
    IF h > nHeight(pindexMostWork) \/ s.out # "ok" THEN s
    ELSE LET pindexConnect == GetAncestor(pindexMostWork, h)
             s1 == UdConnectTip(s, pindexConnect,
                                IF pindexConnect = pindexMostWork THEN pblock ELSE NoBlock)
         IN  IF s1.out # "ok" THEN s1
             ELSE IF nChainWork(pindexConnect) > nChainWork(pindexOldTip)
             THEN UdPruneBlockIndexCandidates(s1)
             ELSE UdConnectFrom(UdPruneBlockIndexCandidates(s1), h + 1,
                                pindexMostWork, pblock, pindexOldTip)

\* ActivateBestChainStep(state, chainparams, pindexMostWork, pblock, ...)
UdActivateBestChainStep(s, pindexMostWork, pblock) ==
    UdConnectFrom(UdDisconnectTo(s, FindFork(s.tip, pindexMostWork)),
                  nHeight(FindFork(s.tip, pindexMostWork)) + 1,
                  pindexMostWork, pblock, s.tip)

\* the loop of PruneOneBlockFile over mapBlockIndex, for the files named
UdPruneOneBlockFile(s, files) ==
    [s EXCEPT !.st = [b \in UndoBlocks |->
                         IF b \in s.index /\ s.nFile[b] \in files
                         THEN s.st[b] \ {"HAVE_DATA", "HAVE_UNDO"} ELSE s.st[b]],
              !.nFile = [b \in UndoBlocks |->
                            IF b \in s.index /\ s.nFile[b] \in files THEN 0 ELSE s.nFile[b]],
              !.unlinked = {b \in @ : s.nFile[b] \notin files}]

\* the file information FindFilesToPrune and FindFilesToPruneManual work on
UdFileView(s) ==
    [vinfoBlockFile |-> s.vinfoBlockFile, nHeight |-> UdHeight(s, s.tip), hPruned |-> {}]

\* LoadBlockIndexDB: nChainTx, mapBlocksUnlinked and the candidates as they
\* are rebuilt from the entries read back
RECURSIVE UdChainTx(_, _)
UdChainTx(s, b) ==
    /\ b \in s.received
    /\ (hashPrevBlock(b) = NoBlock \/ UdChainTx(s, hashPrevBlock(b)))

UdLoadBlockIndexDB(s) ==
    LET linked == {b \in s.index : UdChainTx(s, b)}
    IN  [s EXCEPT !.linked = linked,
                  !.unlinked = {b \in s.index \ linked : b \in s.received},
                  !.cands = linked,
                  !.abc = UdAbcIdle,
                  !.calls = {},
                  !.out = "ok"]

\* the first loop of RewindBlockIndex: the height of the first block of the
\* active chain stored without BLOCK_OPT_WITNESS, or the tip's height plus one
UdRewindHeight(s) ==
    LET lacking == {b \in AncestorsOf(s.tip) :
                       /\ nHeight(b) >= 1
                       /\ s.nSegwitEnabled
                       /\ "OPT_WITNESS" \notin s.st[b]}
    IN  IF lacking = {} THEN nHeight(s.tip) + 1
        ELSE nHeight(CHOOSE b \in lacking : \A c \in lacking : nHeight(b) <= nHeight(c))

\* the second loop of RewindBlockIndex, on a pruning node
RECURSIVE UdRewindDisconnect(_, _)
UdRewindDisconnect(s, h) ==
    IF ~(nHeight(s.tip) >= h) \/ s.out # "ok" THEN s
    ELSE IF "HAVE_DATA" \notin s.st[s.tip] THEN s
    ELSE UdRewindDisconnect(UdDisconnectTip(s), h)

\* the third loop of RewindBlockIndex and PruneBlockIndexCandidates
UdRewindEntries(s) ==
    LET reduced == {b \in s.index : /\ s.nSegwitEnabled
                                    /\ "OPT_WITNESS" \notin s.st[b]
                                    /\ b \notin AncestorsOf(s.tip)}
    IN  UdPruneBlockIndexCandidates(
          [s EXCEPT !.st = [b \in UndoBlocks |->
                               IF b \in reduced
                               THEN s.st[b] \ {"HAVE_DATA", "HAVE_UNDO", "VALID_SCRIPTS"}
                               ELSE s.st[b]],
                    !.nFile = [b \in UndoBlocks |-> IF b \in reduced THEN 0 ELSE s.nFile[b]],
                    !.received = @ \ reduced,
                    !.linked = @ \ reduced,
                    !.seq = [b \in UndoBlocks |-> IF b \in reduced THEN 0 ELSE s.seq[b]],
                    !.cands = (@ \ reduced) \cup
                              {b \in s.index \ reduced : b \in s.received /\ b \in s.linked},
                    !.unlinked = @ \ reduced])

\* RewindBlockIndex(params): the node does not start if it returns false
UdRewindBlockIndex(s) ==
    IF UdRewindDisconnect(s, UdRewindHeight(s)).out # "ok"
    THEN [UdRewindDisconnect(s, UdRewindHeight(s)) EXCEPT !.out = "abort"]
    ELSE UdRewindEntries(UdRewindDisconnect(s, UdRewindHeight(s)))

\* a pruning node with the block "G" stored and connected (the genesis block
\* is connected without undo data); on the long chain an older file holds
\* blocks far below "G"
InitUndo ==
    /\ InitChain
    /\ nScriptCheckThreads = 0
    /\ blockKind = [b \in Blocks |-> "ok"]
    /\ cv = CvIdle
    /\ mp = MpIdle
    /\ fk = [pc |-> "off"]
    /\ fl = [pc |-> "off"]
    /\ pr = [pc |-> "off"]
    /\ rp = [pc |-> "off"]
    /\ lk = [pc |-> "off"]
    /\ gv = [pc |-> "off"]
    /\ im = [pc |-> "off"]
    /\ \E nBase \in UndoBaseChoices, fSegwit \in BOOLEAN :
          ud = [pc |-> "on", nBase |-> nBase, nSegwitEnabled |-> fSegwit,
                index |-> {hashGenesisBlock},
                st |-> [b \in UndoBlocks |->
                           IF b = hashGenesisBlock
                           THEN {"HAVE_DATA", "VALID_SCRIPTS"} \cup
                                (IF nBase # 0 THEN {"HAVE_UNDO"} ELSE {}) \cup
                                (IF fSegwit THEN {"OPT_WITNESS"} ELSE {})
                           ELSE {}],
                nFile |-> [b \in UndoBlocks |->
                              IF b = hashGenesisBlock /\ nBase # 0 THEN 1 ELSE 0],
                vinfoBlockFile |->
                    IF nBase = 0 THEN <<[nSize |-> 1, nHeightLast |-> 0]>>
                    ELSE <<[nSize |-> 12, nHeightLast |-> 12],
                           [nSize |-> 1, nHeightLast |-> nBase]>>,
                received |-> {hashGenesisBlock}, linked |-> {hashGenesisBlock},
                unlinked |-> {}, cands |-> {hashGenesisBlock},
                seq |-> [b \in UndoBlocks |-> 0], nBlockSequenceId |-> 1,
                tip |-> hashGenesisBlock, calls |-> {}, abc |-> UdAbcIdle,
                out |-> "ok", nRestarts |-> 0]

UdRunning == ud.pc = "on" /\ ud.out # "abort"

UdFrame == UNCHANGED <<chainVars, cv, mp, fk, fl, pr, rp, lk, gv, im>>

\* a headers message: AcceptBlockHeader adds the entry
UD_AcceptBlockHeader(b) ==
    /\ UdRunning
    /\ b \notin ud.index
    /\ hashPrevBlock(b) \in ud.index
    /\ ud' = [ud EXCEPT !.index = @ \cup {b}]
    /\ UdFrame

\* ProcessNewBlock(chainparams, pblock, fForceProcessing, ...) up to the
\* release of cs_main: AcceptBlock; the call goes on to ActivateBestChain
UD_ProcessNewBlock(b, fForceProcessing, fFull) ==
    /\ UdRunning
    /\ b \notin ud.calls
    /\ hashPrevBlock(b) \in ud.index
    /\ ud.nBlockSequenceId <= MaxUndoSeq
    /\ fFull => Len(ud.vinfoBlockFile) < MaxUndoFiles
    /\ ud' = [UdAcceptBlock(ud, b, fForceProcessing, fFull) EXCEPT !.calls = @ \cup {b}]
    /\ UdFrame

\* ActivateBestChain(state, chainparams, pblock) is entered by the call that
\* stored pblock
UD_ActivateBestChain(b) ==
    /\ UdRunning
    /\ b \in ud.calls
    /\ ud.abc.pc = "idle"
    /\ ud' = [ud EXCEPT !.calls = @ \ {b},
                        !.abc = [pc |-> "top", pblock |-> b, pindexMostWork |-> NoBlock]]
    /\ UdFrame

\* the end of one iteration: the loop is left when the step failed or the tip
\* is pindexMostWork
UdIterationEnd(r, best, pblock) ==
    [r EXCEPT !.abc = IF r.out # "ok" \/ r.tip = best THEN UdAbcIdle
                      ELSE [pc |-> "top", pblock |-> pblock, pindexMostWork |-> best],
              !.out = IF @ = "error" THEN "ok" ELSE @]

\* one iteration of the loop of ActivateBestChain, under cs_main
UD_Iteration ==
    /\ UdRunning
    /\ ud.abc.pc = "top"
    /\ LET f == IF ud.abc.pindexMostWork = NoBlock THEN UdFindMostWorkChain(ud)
                ELSE [s |-> ud, best |-> ud.abc.pindexMostWork]
       IN  IF f.best = NoBlock \/ f.best = f.s.tip
           THEN ud' = [f.s EXCEPT !.abc = UdAbcIdle]
           ELSE ud' = UdIterationEnd(UdActivateBestChainStep(f.s, f.best, ud.abc.pblock),
                                     f.best, ud.abc.pblock)
    /\ UdFrame

\* PruneBlockFilesManual(nManualPruneHeight): FlushStateToDisk calls
\* FindFilesToPruneManual, PruneOneBlockFile for each file named, and unlinks
UD_PruneBlockFilesManual(nManualPruneHeight) ==
    /\ UdRunning
    /\ FindFilesToPruneManual(UdFileView(ud), nManualPruneHeight).hPruned # {}
    /\ ud' = UdPruneOneBlockFile(
                 [ud EXCEPT !.vinfoBlockFile =
                      FindFilesToPruneManual(UdFileView(ud), nManualPruneHeight).vinfoBlockFile],
                 {p.file : p \in FindFilesToPruneManual(UdFileView(ud), nManualPruneHeight).hPruned})
    /\ UdFrame

\* FlushStateToDisk with fCheckForPruning set: FindFilesToPrune
UD_FindFilesToPrune ==
    /\ UdRunning
    /\ FindFilesToPrune(UdFileView(ud), nUndoPruneAfterHeight, nUndoPruneTarget).hPruned # {}
    /\ ud' = UdPruneOneBlockFile(
                 [ud EXCEPT !.vinfoBlockFile =
                      FindFilesToPrune(UdFileView(ud), nUndoPruneAfterHeight,
                                       nUndoPruneTarget).vinfoBlockFile],
                 {p.file : p \in FindFilesToPrune(UdFileView(ud), nUndoPruneAfterHeight,
                                                  nUndoPruneTarget).hPruned})
    /\ UdFrame

\* the node is stopped and started again, possibly by a release that enables
\* segwit: LoadBlockIndexDB, then RewindBlockIndex
UD_Restart(fEnable) ==
    /\ ud.pc = "on"
    /\ ud.nRestarts < MaxUndoRestarts
    /\ ud' = UdRewindBlockIndex(
                 [UdLoadBlockIndexDB(ud) EXCEPT !.nSegwitEnabled = @ \/ fEnable,
                                                !.nRestarts = @ + 1])
    /\ UdFrame

NextUndo ==
    \/ \E b \in UndoBlocks : UD_AcceptBlockHeader(b)
    \/ \E b \in UndoBlocks, fForceProcessing \in BOOLEAN, fFull \in BOOLEAN :
          UD_ProcessNewBlock(b, fForceProcessing, fFull)
    \/ \E b \in UndoBlocks : UD_ActivateBestChain(b)
    \/ UD_Iteration
    \/ \E h \in UndoManualChoices : UD_PruneBlockFilesManual(h)
    \/ UD_FindFilesToPrune
    \/ \E fEnable \in BOOLEAN : UD_Restart(fEnable)

SpecUndo == InitUndo /\ [][NextUndo]_vars

\* C39: at every observable state, every block-index entry with HAVE_UNDO also
\* has HAVE_DATA, across block connection, pruning and block-index rewinding
C39_UndoImpliesData ==
    ud.pc = "on" =>
        \A b \in ud.index : "HAVE_UNDO" \in ud.st[b] => "HAVE_DATA" \in ud.st[b]

\* the same on a chain longer than MIN_BLOCKS_TO_KEEP, where no file holding a
\* block above the tip minus MIN_BLOCKS_TO_KEEP is pruned
UndoImpliesDataOnLongChain ==
    (ud.pc = "on" /\ ud.nBase >= MIN_BLOCKS_TO_KEEP) =>
        \A b \in ud.index : "HAVE_UNDO" \in ud.st[b] => "HAVE_DATA" \in ud.st[b]

====
